---- MODULE Spec2Model ----
(***************************************************************************)
(* A model of the RV32I assembler / emulator of this repository.           *)
(*                                                                         *)
(*   SpecCpu  the emulator: register file, MMU program image, CPU.step     *)
(*            and the RV32I instruction handlers          (src/src/emu)    *)
(*   SpecAsm  the preprocessor, Parser.interpret and MMU.load_program      *)
(*                                                         (src/src/asm)    *)
(*   SpecEnc  the table-driven instruction encoder                         *)
(*                                      (src/src/riscv_assembler)          *)
(*   SpecRf   the register file called by name                             *)
(*                              (src/src/emu/registers.py, rf.py)          *)
(*   SpecRerun  the preprocessor run again on its own mnemonics            *)
(*   SpecMmu  MMU.is_valid_addr                     (src/src/emu/mmu.py)   *)
(*                                                                         *)
(* Operand access.  The handlers of cpu.py read their operands with        *)
(* ins.get_reg(i), ins.get_imm(i) and len(ins.args); the decoded record of *)
(* instruction.py stores them as `regs` (a tuple of register indices) and  *)
(* `imm` (an optional integer).  The model reads ins.args as the register  *)
(* indices followed by the immediate when there is one, get_reg(i) as      *)
(* regs[i] and get_imm(i) as TranslatableInstruction.get_imm().            *)
(*                                                                         *)
(* Numbers.  A register holds an Int32, a value of -2^31 .. 2^31-1, which  *)
(* is exactly the range of the integers TLC computes with, so 32-bit       *)
(* arithmetic is done on 16-bit halves and never leaves that range.  The   *)
(* program counter is a Python int and is not wrapped by the code: the     *)
(* model keeps it as pc_hi * 2^32 + pc with pc in the Int32 range.         *)
(***************************************************************************)
EXTENDS Integers, Sequences, FiniteSets, TLC

VARIABLES
    base_addr,   \* MMU.base / AsmBackend._base_addr
    program,     \* MMU.program: absolute address -> decoded instruction
    mmu_size,    \* MMU.size
    vals,        \* Registers.vals: key -> Int32 (a defaultdict, 0 when absent)
    last_set,    \* Registers.last_set  (<<>> is None)
    last_read,   \* Registers.last_read (<<>> is None)
    pc,          \* CPU.pc, low 32 bits (signed)
    pc_hi,       \* CPU.pc, the multiple of 2^32 above them
    cycle,       \* CPU.cycle
    halted,      \* CPU.halted
    phase,       \* where the CPU is: "idle", "fetch", "exec", "debug",
                 \* "exited", "crashed"
    cur,         \* the local `ins` of CPU.step (NoIns before the first fetch)
    raised,      \* the exception the last CPU.step caught or let through
                 \* ("none" when it raised nothing)
    debugger_active,  \* CPU.debugger_active
    ret,         \* what the host's last call of get or set returned
                 \* (<<>> when it returned nothing)
    enc_in,      \* the call of the encoder: [type, op, args]
    enc_out,     \* what the call returned or raised
    bin_file,    \* the bytes of the .bin file write_to_file has written
                 \* (<<>> before it is written)
    lines,       \* AsmBackend._lines
    translatable_indices,  \* AsmBackend._translatable_indices
    mnemonics,   \* AsmBackend._mnemonics
    symbol_table,          \* AsmBackend._symbol_table: name -> value
    macros,      \* AsmBackend._macros: name -> [args, lines]
    loop,        \* the locals of RV32Backend.preproc: idx, in_macro,
                 \* macro_name, macro_args, macro_lines, translatable_line_cnt
    asm_phase,   \* "idle", "preproc", "loaded", "failed"
    declared,    \* history: the label declarations and .equ definitions
                 \* processed so far, [kind, name, idx, k]
    first        \* history: the mnemonics and symbol table of the backend
                 \* whose mnemonics are being preprocessed again (<<>> when
                 \* the source is preprocessed for the first time)

cpuVars == <<base_addr, program, mmu_size, vals, last_set, last_read,
             pc, pc_hi, cycle, halted, phase, cur, raised, debugger_active,
             ret>>

encVars == <<enc_in, enc_out, bin_file>>

asmVars == <<lines, translatable_indices, mnemonics, symbol_table, macros,
             loop, asm_phase, declared, first>>

vars == <<cpuVars, encVars, asmVars>>

\* a dict with no key
EmptyMap == [x \in {} |-> 0]

\* the locals of preproc before the first line
LoopStart == [idx |-> 0, in_macro |-> FALSE, macro_name |-> "",
              macro_args |-> <<>>, macro_lines |-> <<>>,
              translatable_line_cnt |-> 0]

\* AsmBackend.__init__
AsmFresh ==
    /\ translatable_indices = <<>>
    /\ mnemonics = <<>>
    /\ symbol_table = EmptyMap
    /\ macros = EmptyMap
    /\ loop = LoopStart
    /\ declared = <<>>

\* no assembler run is in progress
AsmIdle ==
    /\ lines = <<>>
    /\ asm_phase = "idle"
    /\ AsmFresh
    /\ first = <<>>

\* no encoder call is in progress
EncIdle ==
    /\ enc_in = [type |-> "none", op |-> "none", args |-> <<>>, nums |-> <<>>]
    /\ enc_out = [err |-> "none", bin |-> <<>>]
    /\ bin_file = <<>>

-----------------------------------------------------------------------------
(* Program constants *)

BASE_ADDR == 524544
INS_XLEN == 4
RA_STR == -1

-----------------------------------------------------------------------------
(* Bounds of the model *)

MaxCycle == 3

-----------------------------------------------------------------------------
(* Int32 / UInt32: 32-bit two's-complement values *)

Lo16(x) == x % 65536
Hi16(x) == (x - Lo16(x)) \div 65536

\* Int32.__add__: wrapping 32-bit addition
Add32(a, b) ==
    LET lo == Lo16(a) + Lo16(b)
        hi == ((Hi16(a) + Hi16(b) + (lo \div 65536) + 32768) % 65536) - 32768
    IN  hi * 65536 + (lo % 65536)

\* Int32.__sub__: wrapping 32-bit subtraction
Sub32(a, b) ==
    LET lo == Lo16(a) - Lo16(b)
        hi == ((Hi16(a) - Hi16(b) + (lo \div 65536) + 32768) % 65536) - 32768
    IN  hi * 65536 + (lo % 65536)

\* Int32.__lshift__ by 12: the low 20 bits move up, the rest is lost
Shl12(a) ==
    LET low == a % 1048576
    IN  IF low >= 524288 THEN (low - 1048576) * 4096 ELSE low * 4096

\* Int32.unsigned_value as the pair <<high half, low half>> of 16-bit digits
unsigned_value(a) == <<Hi16(a) % 65536, Lo16(a)>>

\* `<` on two unsigned values
ULess(u, v) == u[1] < v[1] \/ (u[1] = v[1] /\ u[2] < v[2])

\* a Python int  hi * 2^32 + lo  plus a 32-bit delta, as <<hi, lo>>
AddWide(hi, lo, delta) ==
    LET s == Add32(lo, delta)
        k == IF lo >= 0 /\ delta >= 0 /\ s < 0 THEN 1
             ELSE IF lo < 0 /\ delta < 0 /\ s >= 0 THEN -1
             ELSE 0
    IN  <<hi + k, s>>

\* unsigned_value(a) as a Python int, as <<hi, lo>>
UnsignedWide(a) == IF a < 0 THEN <<1, a>> ELSE <<0, a>>

-----------------------------------------------------------------------------
(* Registers *)

RegIdx == 0 .. 31
RegKeys == RegIdx \cup {RA_STR}

valid_regs ==
    [zero |-> 0, ra |-> 1, sp |-> 2, gp |-> 3, tp |-> 4, t0 |-> 5, t1 |-> 6,
     t2 |-> 7, s0 |-> 8, fp |-> 8, s1 |-> 9, a0 |-> 10, a1 |-> 11, a2 |-> 12,
     a3 |-> 13, a4 |-> 14, a5 |-> 15, a6 |-> 16, a7 |-> 17, s2 |-> 18,
     s3 |-> 19, s4 |-> 20, s5 |-> 21, s6 |-> 22, s7 |-> 23, s8 |-> 24,
     s9 |-> 25, s10 |-> 26, s11 |-> 27, t3 |-> 28, t4 |-> 29, t5 |-> 30,
     t6 |-> 31]

is_reg_valid(reg) == reg \in DOMAIN valid_regs

\* The part of the CPU a handler works on
Machine == [vals |-> vals, last_set |-> last_set, last_read |-> last_read,
            pc |-> pc, pc_hi |-> pc_hi]

\* Registers.set without the x0 guard
RegSetNoGuard(m, reg, val) ==
    [m EXCEPT !.last_set = <<reg>>, !.vals[reg] = val]

\* Registers.set(reg, val)
RegSet(m, reg, val) ==
    IF reg = 0 THEN m
    ELSE [m EXCEPT !.last_set = <<reg>>, !.vals[reg] = val]

\* Registers.get(reg): the value read
RegGet(m, reg) == m.vals[reg]

\* Registers.get(reg): the mark it leaves
MarkRead(m, reg) == [m EXCEPT !.last_read = <<reg>>]

-----------------------------------------------------------------------------
(* Decoded instructions *)

\* TranslatableInstruction(name, addr, regs, imm); imm = <<>> is None
Ins(name, addr, regs, imm) ==
    [name |-> name, addr |-> addr, regs |-> regs, imm |-> imm]

NoIns == Ins("none", 0, <<>>, <<>>)

\* len(ins.args)
LenArgs(ins) == Len(ins.regs) + Len(ins.imm)

\* TranslatableInstruction.get_reg(num)
get_reg(ins, num) == ins.regs[num + 1]

\* TranslatableInstruction.get_imm raises NumberFormatException: `if not self.imm`
GetImmRaises(ins) == ins.imm = <<>> \/ ins.imm[1] = 0

\* Immediate.abs_value of get_imm()
abs_value(ins) == ins.imm[1]

\* Immediate.pcrel_value of get_imm(): Int32(val - self.addr)
pcrel_value(ins) == Sub32(ins.imm[1], ins.addr)

-----------------------------------------------------------------------------
(* Handler results: the machine a handler leaves and the exception it raises *)

Ok(m) == [m |-> m, exc |-> "none"]
Raise(m, e) == [m |-> m, exc |-> e]

\* the subclasses of RV32IBaseException that CPU.step turns into a halt
HaltingExceptions == {"ParseException", "NumberFormatException",
                      "InvalidRegisterException", "InvalidAddressException",
                      "UnimplementedException"}

\* ASSERT_LEN(ins.args, size)
ASSERT_LEN(ins, size) == LenArgs(ins) = size

\* self.cpu.pc += d - 4
JumpRel(m, d) ==
    LET p == AddWide(m.pc_hi, m.pc, d)
        q == AddWide(p[1], p[2], -4)
    IN  [m EXCEPT !.pc_hi = q[1], !.pc = q[2]]

\* ISA.parse_rs_rs_imm: reads rs1, rs2, then the immediate
parse_rs_rs_imm(ins, m) ==
    IF Len(ins.regs) < 1 THEN Raise(m, "IndexError")
    ELSE LET m1 == MarkRead(m, get_reg(ins, 0))
         IN  IF Len(ins.regs) < 2 THEN Raise(m1, "IndexError")
             ELSE LET m2 == MarkRead(m1, get_reg(ins, 1))
                  IN  IF GetImmRaises(ins)
                      THEN Raise(m2, "NumberFormatException")
                      ELSE Ok(m2)

\* ISA.parse_rd_rs_rs: ASSERT_LEN, then reads rs1 and rs2
parse_rd_rs_rs(ins, m) ==
    IF ~ASSERT_LEN(ins, 3) THEN Raise(m, "ParseException")
    ELSE IF Len(ins.regs) < 2 THEN Raise(m, "IndexError")
    ELSE LET m1 == MarkRead(m, get_reg(ins, 1))
         IN  IF Len(ins.regs) < 3 THEN Raise(m1, "IndexError")
             ELSE Ok(MarkRead(m1, get_reg(ins, 2)))

\* ISA.parse_rd_rs_imm: reads rs, then the immediate
parse_rd_rs_imm(ins, m) ==
    IF Len(ins.regs) < 2 THEN Raise(m, "IndexError")
    ELSE LET m1 == MarkRead(m, get_reg(ins, 1))
         IN  IF GetImmRaises(ins)
             THEN Raise(m1, "NumberFormatException")
             ELSE Ok(m1)

\* the comparisons of the six branch handlers, on the Int32 values of rs1, rs2
Taken(name, a, b) ==
    CASE name = "beq"  -> a = b
      [] name = "bne"  -> a # b
      [] name = "blt"  -> a < b
      [] name = "bge"  -> a >= b
      [] name = "bltu" -> ULess(unsigned_value(a), unsigned_value(b))
      [] name = "bgeu" -> ~ULess(unsigned_value(a), unsigned_value(b))

BranchNames == {"beq", "bne", "blt", "bge", "bltu", "bgeu"}

\* RV32I.instruction_beq .. instruction_bgeu
instruction_branch(ins, m) ==
    LET p == parse_rs_rs_imm(ins, m)
    IN  IF p.exc # "none" THEN p
        ELSE IF Taken(ins.name, RegGet(m, get_reg(ins, 0)),
                      RegGet(m, get_reg(ins, 1)))
             THEN Ok(JumpRel(p.m, pcrel_value(ins)))
             ELSE p

\* RV32I.instruction_j
instruction_j(ins, m) ==
    IF ~ASSERT_LEN(ins, 1) THEN Raise(m, "ParseException")
    ELSE IF GetImmRaises(ins) THEN Raise(m, "NumberFormatException")
    ELSE Ok(JumpRel(m, pcrel_value(ins)))

\* RV32I.instruction_jal
instruction_jal(ins, m) ==
    IF LenArgs(ins) = 1
    THEN IF GetImmRaises(ins) THEN Raise(m, "NumberFormatException")
         ELSE Ok(JumpRel(RegSet(m, RA_STR, m.pc), pcrel_value(ins)))
    ELSE IF ~ASSERT_LEN(ins, 2) THEN Raise(m, "ParseException")
    ELSE IF Len(ins.regs) < 1 THEN Raise(m, "IndexError")
    ELSE IF GetImmRaises(ins) THEN Raise(m, "NumberFormatException")
    ELSE Ok(JumpRel(RegSet(m, get_reg(ins, 0), m.pc), pcrel_value(ins)))

\* RV32I.instruction_jalr
instruction_jalr(ins, m) ==
    IF ~ASSERT_LEN(ins, 3) THEN Raise(m, "ParseException")
    ELSE IF Len(ins.regs) < 2 THEN Raise(m, "IndexError")
    ELSE IF GetImmRaises(ins) THEN Raise(m, "NumberFormatException")
    ELSE LET m1 == RegSet(m, get_reg(ins, 0), m.pc)
             m2 == MarkRead(m1, get_reg(ins, 1))
             u  == UnsignedWide(RegGet(m1, get_reg(ins, 1)))
             t  == AddWide(u[1], u[2], abs_value(ins))
         IN  Ok([m2 EXCEPT !.pc_hi = t[1], !.pc = t[2]])

\* RV32I.instruction_ret
instruction_ret(ins, m) ==
    IF ~ASSERT_LEN(ins, 0) THEN Raise(m, "ParseException")
    ELSE LET u == UnsignedWide(RegGet(m, RA_STR))
         IN  Ok([MarkRead(m, RA_STR) EXCEPT !.pc_hi = u[1], !.pc = u[2]])

\* RV32I.instruction_add
instruction_add(ins, m) ==
    LET p == parse_rd_rs_rs(ins, m)
    IN  IF p.exc # "none" THEN p
        ELSE Ok(RegSet(p.m, get_reg(ins, 0),
                       Add32(RegGet(m, get_reg(ins, 1)),
                             RegGet(m, get_reg(ins, 2)))))

\* RV32I.instruction_sub
instruction_sub(ins, m) ==
    LET p == parse_rd_rs_rs(ins, m)
    IN  IF p.exc # "none" THEN p
        ELSE Ok(RegSet(p.m, get_reg(ins, 0),
                       Sub32(RegGet(m, get_reg(ins, 1)),
                             RegGet(m, get_reg(ins, 2)))))

\* RV32I.instruction_addi
instruction_addi(ins, m) ==
    LET p == parse_rd_rs_imm(ins, m)
    IN  IF p.exc # "none" THEN p
        ELSE Ok(RegSet(p.m, get_reg(ins, 0),
                       Add32(RegGet(m, get_reg(ins, 1)), abs_value(ins))))

\* RV32I.instruction_lui
instruction_lui(ins, m) ==
    IF ~ASSERT_LEN(ins, 2) THEN Raise(m, "ParseException")
    ELSE IF Len(ins.regs) < 1 THEN Raise(m, "IndexError")
    ELSE IF GetImmRaises(ins) THEN Raise(m, "NumberFormatException")
    ELSE Ok(RegSet(m, get_reg(ins, 0), Shl12(abs_value(ins))))

\* RV32I.instruction_auipc
instruction_auipc(ins, m) ==
    IF ~ASSERT_LEN(ins, 2) THEN Raise(m, "ParseException")
    ELSE IF Len(ins.regs) < 1 THEN Raise(m, "IndexError")
    ELSE IF GetImmRaises(ins) THEN Raise(m, "NumberFormatException")
    ELSE Ok(RegSet(m, get_reg(ins, 0), Add32(Shl12(abs_value(ins)), m.pc)))

\* RV32I.instruction_nop
instruction_nop(ins, m) ==
    IF ~ASSERT_LEN(ins, 0) THEN Raise(m, "ParseException") ELSE Ok(m)

\* RV32I.instruction_mv
instruction_mv(ins, m) ==
    IF ~ASSERT_LEN(ins, 2) THEN Raise(m, "ParseException")
    ELSE IF Len(ins.regs) < 2 THEN Raise(m, "IndexError")
    ELSE Ok(RegSet(MarkRead(m, get_reg(ins, 1)), get_reg(ins, 0),
                   RegGet(m, get_reg(ins, 1))))

\* RV32I.instruction_li / instruction_la
instruction_li(ins, m) ==
    IF ~ASSERT_LEN(ins, 2) THEN Raise(m, "ParseException")
    ELSE IF Len(ins.regs) < 1 THEN Raise(m, "IndexError")
    ELSE IF GetImmRaises(ins) THEN Raise(m, "NumberFormatException")
    ELSE Ok(RegSet(m, get_reg(ins, 0), abs_value(ins)))

StoreNames == {"sb", "sh", "sw"}
LoadNames == {"lb", "lh", "lw", "lbu", "lhu"}

\* ISA.parse_mem_ins: assert len(ins.args) == 3; rd, rs, imm
parse_mem_ins(ins, m) ==
    IF LenArgs(ins) # 3 THEN Raise(m, "AssertionError")
    ELSE IF Len(ins.regs) < 2 THEN Raise(m, "IndexError")
    ELSE LET m1 == MarkRead(m, get_reg(ins, 1))
         IN  IF GetImmRaises(ins)
             THEN Raise(m1, "NumberFormatException")
             ELSE Ok(m1)

\* RV32I.instruction_sb / sh / sw: regs.get(rd).to_bytes(N) is handed to
\* MMU.write, whose body is `pass`
instruction_store(ins, m) ==
    LET p == parse_mem_ins(ins, m)
    IN  IF p.exc # "none" THEN p
        ELSE Ok(MarkRead(p.m, get_reg(ins, 0)))

\* what UInt32(None) / UInt32.sign_extend(None, bits) does with the None
\* that MMU.read returns: it raises, or it yields the default value 0
NoneOutcomes == {"TypeError", "zero"}

\* RV32I.instruction_lb / lh / lw / lbu / lhu: MMU.read has the body `pass`
\* and returns None
instruction_load(ins, m, none_as) ==
    LET p == parse_mem_ins(ins, m)
    IN  IF p.exc # "none" THEN p
        ELSE IF none_as = "zero" THEN Ok(RegSet(p.m, get_reg(ins, 0), 0))
        ELSE Raise(p.m, none_as)

\* RV32I.instruction_ebreak / instruction_sbreak
instruction_sbreak(ins, m) ==
    IF ~ASSERT_LEN(ins, 0) THEN Raise(m, "ParseException")
    ELSE Raise(m, "LaunchDebuggerException")

\* CPU.run_instruction: self.instr_handlers[ins.name](ins)
run_instruction(ins, m) ==
    CASE ins.name \in BranchNames -> instruction_branch(ins, m)
      [] ins.name \in StoreNames -> instruction_store(ins, m)
      [] ins.name = "j"     -> instruction_j(ins, m)
      [] ins.name = "jal"   -> instruction_jal(ins, m)
      [] ins.name = "jalr"  -> instruction_jalr(ins, m)
      [] ins.name = "ret"   -> instruction_ret(ins, m)
      [] ins.name = "add"   -> instruction_add(ins, m)
      [] ins.name = "sub"   -> instruction_sub(ins, m)
      [] ins.name = "addi"  -> instruction_addi(ins, m)
      [] ins.name = "lui"   -> instruction_lui(ins, m)
      [] ins.name = "auipc" -> instruction_auipc(ins, m)
      [] ins.name = "nop"   -> instruction_nop(ins, m)
      [] ins.name = "mv"    -> instruction_mv(ins, m)
      [] ins.name \in {"li", "la"} -> instruction_li(ins, m)
      [] ins.name \in {"ebreak", "sbreak"} -> instruction_sbreak(ins, m)
      [] OTHER -> Raise(m, "RuntimeError")

-----------------------------------------------------------------------------
(* The programs and host inputs the emulator is run on *)

BaseAddrs == {0, BASE_ADDR}
ProgLens == {1, 2}
HostRegs == {0, 5, 6}
HostNames == {"zero", "t0", "a0"}
HostVals == {-1, 1}

\* decoded operands <<name, regs, imm>> of the instructions of a program at base b
Shapes(b) ==
    {<<n, <<5, 6>>, <<t>>>> : n \in BranchNames, t \in {b, b + 8}}
    \cup {<<"jal", <<>>, <<b + 4>>>>, <<"jal", <<1>>, <<b + 4>>>>,
          <<"jal", <<0>>, <<b + 4>>>>, <<"jal", <<5>>, <<b>>>>}
    \cup {<<"jalr", <<0, 5>>, <<1>>>>, <<"jalr", <<1, 1>>, <<4>>>>,
          <<"jalr", <<0, 1>>, <<0>>>>}
    \cup {<<"addi", <<5, 0>>, <<-1>>>>, <<"addi", <<0, 5>>, <<1>>>>,
          <<"addi", <<6, 5>>, <<0>>>>}
    \cup {<<"add", <<6, 5, 6>>, <<>>>>, <<"auipc", <<5>>, <<1>>>>,
          <<"nop", <<>>, <<>>>>, <<"ret", <<>>, <<>>>>}
    \cup {<<"sw", <<6, 5>>, <<4>>>>, <<"lw", <<7, 5>>, <<4>>>>,
          <<"sb", <<6, 5>>, <<4>>>>, <<"lbu", <<7, 5>>, <<4>>>>,
          <<"mul", <<5, 5, 6>>, <<>>>>, <<"ebreak", <<>>, <<>>>>}

\* Parser.interpret with a step of 1 instead of INS_XLEN
AddrOfUnscaled(b, i) == b + (i - 1)

\* Parser.interpret: `pc = base`, then `pc += INS_XLEN` after each line
AddrOf(b, i) == b + INS_XLEN * (i - 1)

\* the dict Parser.interpret returns for lines analysed as `entries`:
\* address -> <<op, operands>>
AsmsOf(b, entries) ==
    [a \in {AddrOf(b, i) : i \in 1 .. Len(entries)} |->
        entries[CHOOSE j \in 1 .. Len(entries) : AddrOf(b, j) = a]]

\* MMU.load_program: one TranslatableInstruction per entry of asms
load_program(asms) ==
    [a \in DOMAIN asms |->
        Ins(asms[a][1], a, asms[a][2].regs, asms[a][2].imm)]

\* the results CPU.run_instruction can have (a load has one for each thing
\* UInt32 may do with None)
Outcomes(ins, m) ==
    IF ins.name \in LoadNames
    THEN {instruction_load(ins, m, o) : o \in NoneOutcomes}
    ELSE {run_instruction(ins, m)}

\* the analysed line of a shape
EntryOf(shape) == <<shape[1], [regs |-> shape[2], imm |-> shape[3]]>>

\* the instructions of `jal ra, f; ebreak; f:; addi a0, zero, 7;
\* jalr zero, ra, 0` assembled at base b (f is b + 8)
CallReturn(b) ==
    << <<"jal", <<1>>, <<b + 8>>>>, <<"ebreak", <<>>, <<>>>>,
       <<"addi", <<10, 0>>, <<7>>>>, <<"jalr", <<0, 1>>, <<0>>>> >>

\* the programs the emulator is launched on
Programs(b) ==
    UNION {[1 .. n -> Shapes(b)] : n \in ProgLens} \cup {CallReturn(b)}

\* MMU.program after the instructions `shapes` are loaded at base b
Loaded(b, shapes) ==
    load_program(AsmsOf(b, [i \in 1 .. Len(shapes) |-> EntryOf(shapes[i])]))

-----------------------------------------------------------------------------
(* The emulator *)

\* RV32IEmulator.instantiate_cpu and load_programs: CPU.__init__, MMU.__init__
InitCpu ==
    /\ base_addr \in BaseAddrs
    /\ \E shapes \in Programs(base_addr) :
          /\ program = Loaded(base_addr, shapes)
          /\ mmu_size = Len(shapes)
    /\ vals = [k \in RegKeys |-> 0]
    /\ last_set = <<>>
    /\ last_read = <<>>
    /\ pc = 0
    /\ pc_hi = 0
    /\ cycle = 0
    /\ halted = FALSE
    /\ phase = "idle"
    /\ cur = NoIns
    /\ raised = "none"
    /\ debugger_active = FALSE
    /\ ret = <<>>
    /\ EncIdle
    /\ AsmIdle

Apply(m) ==
    /\ vals' = m.vals
    /\ last_set' = m.last_set
    /\ last_read' = m.last_read
    /\ pc' = m.pc
    /\ pc_hi' = m.pc_hi

\* the host calls regs.set(reg, val) before launch
HostSet(reg, val) ==
    /\ phase = "idle"
    /\ Apply(RegSet(Machine, reg, val))
    /\ UNCHANGED <<base_addr, program, mmu_size, cycle, halted, phase, cur,
                   raised, debugger_active>>
    /\ UNCHANGED <<encVars, asmVars, ret>>

\* Registers.set_by_name(reg, val), called by the host before launch
HostSetByName(name, val) ==
    /\ phase = "idle"
    /\ is_reg_valid(name)
    /\ Apply(RegSet(Machine, valid_regs[name], val))
    /\ UNCHANGED <<base_addr, program, mmu_size, cycle, halted, phase, cur,
                   raised, debugger_active>>
    /\ UNCHANGED <<encVars, asmVars, ret>>

\* CPU.launch: initialize_registers (a0 = hart_id = 0), pc = entrypoint, run()
Launch ==
    /\ phase = "idle"
    /\ Apply([RegSet(Machine, valid_regs["a0"], 0) EXCEPT
                 !.pc = base_addr, !.pc_hi = 0])
    /\ phase' = "fetch"
    /\ UNCHANGED <<base_addr, program, mmu_size, cycle, halted, cur, raised,
                   debugger_active>>
    /\ UNCHANGED <<encVars, asmVars, ret>>

\* MMU.read_ins(addr) finds an instruction: self.program[addr]
CanFetch(hi, lo) == hi = 0 /\ lo \in DOMAIN program

\* MMU.read_ins(addr): `return self.program[addr]`, a dict lookup
read_ins(hi, lo) ==
    IF CanFetch(hi, lo) THEN [exc |-> "none", ins |-> program[lo]]
    ELSE [exc |-> "KeyError", ins |-> NoIns]

\* the PC after `self.pc += self.INS_XLEN`, with a wrong increment
NextPcStuck(hi, lo) == <<hi, lo>>

\* the PC after `self.pc += self.INS_XLEN`
NextPc(hi, lo) == AddWide(hi, lo, INS_XLEN)

\* the condition of the loop of CPU.run, never false
RunConditionAlways(h) == TRUE

\* CPU.run: the condition of `while not self.halted`
RunCondition(h) == ~h

\* the host assigns cpu.halted = True, before launch or from the console of
\* the debugger
HostHalt ==
    /\ phase \in {"idle", "debug"}
    /\ ~halted
    /\ halted' = TRUE
    /\ UNCHANGED <<base_addr, program, mmu_size, vals, last_set, last_read,
                   pc, pc_hi, cycle, phase, cur, raised, debugger_active>>
    /\ UNCHANGED <<encVars, asmVars, ret>>

\* where an exception that is no RV32IBaseException ends up: it leaves
\* CPU.step and CPU.run; under the debugger's console handle_command catches
\* it (`except Exception`) and the console prompts again, else nothing does
Uncaught(active) == IF active THEN "debug" ELSE "crashed"

\* CPU.step, first half: cycle += 1; ins = read_ins(pc); pc += INS_XLEN
Fetch ==
    /\ phase = "fetch"
    /\ RunCondition(halted)
    /\ cycle < MaxCycle
    /\ cycle' = cycle + 1
    /\ raised' = read_ins(pc_hi, pc).exc
    /\ IF read_ins(pc_hi, pc).exc = "none"
       THEN /\ cur' = read_ins(pc_hi, pc).ins
            /\ pc' = NextPc(pc_hi, pc)[2]
            /\ pc_hi' = NextPc(pc_hi, pc)[1]
            /\ phase' = "exec"
       ELSE /\ phase' = Uncaught(debugger_active)
            /\ UNCHANGED <<cur, pc, pc_hi>>
    /\ UNCHANGED <<base_addr, program, mmu_size, vals, last_set, last_read,
                   halted, debugger_active>>
    /\ UNCHANGED <<encVars, asmVars, ret>>

\* what `launch_debug_session(self)` at the end of CPU.step does: the name is
\* imported under typing.TYPE_CHECKING only, so the call is a NameError; with
\* emu/debug.py bound to the name it opens the debugger's console
SessionOutcomes == {"NameError", "session"}

\* CPU.step, second half: run_instruction(ins), the except clause and the
\* launch of the debugger
Execute ==
    /\ phase = "exec"
    /\ \E r \in Outcomes(cur, Machine) :
           /\ Apply(r.m)
           /\ IF r.exc = "LaunchDebuggerException"
              THEN IF debugger_active
                   THEN \* `raise ex`: the console's cont / step catches it
                        /\ raised' = r.exc
                        /\ phase' = "debug"
                        /\ UNCHANGED <<halted, debugger_active>>
                   ELSE \E o \in SessionOutcomes :
                        /\ raised' = IF o = "session" THEN r.exc ELSE o
                        /\ phase' = IF o = "session" THEN "debug" ELSE "crashed"
                        /\ debugger_active' = (o = "session")
                        /\ UNCHANGED halted
              ELSE /\ raised' = r.exc
                   /\ halted' = (halted \/ r.exc \in HaltingExceptions)
                   /\ phase' = IF r.exc = "none" \/ r.exc \in HaltingExceptions
                               THEN "fetch" ELSE Uncaught(debugger_active)
                   /\ UNCHANGED debugger_active
    /\ UNCHANGED <<base_addr, program, mmu_size, cycle, cur>>
    /\ UNCHANGED <<encVars, asmVars, ret>>

\* launch_debug_session, the console's `cont`: cpu.run() with the debugger
\* attached
DebugCont ==
    /\ phase = "debug"
    /\ phase' = "fetch"
    /\ UNCHANGED <<base_addr, program, mmu_size, vals, last_set, last_read,
                   pc, pc_hi, cycle, halted, cur, raised, debugger_active>>
    /\ UNCHANGED <<encVars, asmVars, ret>>

\* launch_debug_session, the console's `step`: one cpu.step() with the
\* debugger attached.  CPU.step raises a LaunchDebuggerException again when
\* debugger_active, `step` raises it again, handle_command does not catch it
\* (RV32IBaseException is a BaseException), it leaves the console, and
\* launch_debug_session ends with print_stacktrace, sys.exit(-1) and
\* `finally: cpu.debugger_active = False`
DebugStep ==
    /\ phase = "debug"
    /\ cycle < MaxCycle
    /\ cycle' = cycle + 1
    /\ LET f == read_ins(pc_hi, pc)
           m0 == [Machine EXCEPT !.pc = NextPc(pc_hi, pc)[2],
                                 !.pc_hi = NextPc(pc_hi, pc)[1]]
       IN  IF f.exc # "none"
           THEN /\ raised' = f.exc
                /\ phase' = "debug"
                /\ UNCHANGED <<vals, last_set, last_read, pc, pc_hi, cur,
                               halted, debugger_active>>
           ELSE /\ cur' = f.ins
                /\ \E r \in Outcomes(f.ins, m0) :
                       /\ Apply(r.m)
                       /\ raised' = r.exc
                       /\ IF r.exc = "LaunchDebuggerException"
                          THEN /\ phase' = "exited"
                               /\ debugger_active' = FALSE
                               /\ UNCHANGED halted
                          ELSE /\ phase' = "debug"
                               /\ halted' = (halted \/ r.exc \in HaltingExceptions)
                               /\ UNCHANGED debugger_active
    /\ UNCHANGED <<base_addr, program, mmu_size>>
    /\ UNCHANGED <<encVars, asmVars, ret>>

\* launch_debug_session, leaving the console: `finally: cpu.debugger_active =
\* False`, and CPU.step returns to the loop of CPU.run
DebugExit ==
    /\ phase = "debug"
    /\ debugger_active' = FALSE
    /\ phase' = "fetch"
    /\ UNCHANGED <<base_addr, program, mmu_size, vals, last_set, last_read,
                   pc, pc_hi, cycle, halted, cur, raised>>
    /\ UNCHANGED <<encVars, asmVars, ret>>

\* CPU.run: `while not self.halted` ends the loop (the run of the console's
\* `cont` returns to the console)
RunExit ==
    /\ phase = "fetch"
    /\ ~RunCondition(halted)
    /\ phase' = IF debugger_active THEN "debug" ELSE "exited"
    /\ UNCHANGED <<base_addr, program, mmu_size, vals, last_set, last_read,
                   pc, pc_hi, cycle, halted, cur, raised, debugger_active>>
    /\ UNCHANGED <<encVars, asmVars, ret>>

NextCpu ==
    \/ \E reg \in HostRegs, val \in HostVals : HostSet(reg, val)
    \/ \E name \in HostNames, val \in HostVals : HostSetByName(name, val)
    \/ HostHalt
    \/ Launch
    \/ Fetch
    \/ Execute
    \/ DebugCont
    \/ DebugStep
    \/ DebugExit
    \/ RunExit

SpecCpu == InitCpu /\ [][NextCpu]_vars

-----------------------------------------------------------------------------
(* Properties of the emulator, checked under SpecCpu *)

\* the instruction in `cur` has been executed and the loop is back at its top
Executed(name) == phase = "fetch" /\ cycle > 0 /\ cur.name = name

\* C1: register x0 is hard-wired to zero: after any sequence of set,
\* set_by_name and handler writes, get(0) returns 0.
C1_ZeroRegister == RegGet(Machine, 0) = 0

\* C1's case: `addi x0, t0, 1` has run with t0 = 1 (a write of 2 to x0)
C1_Witness ==
    /\ Executed("addi") /\ ~halted
    /\ get_reg(cur, 0) = 0
    /\ vals[5] = 1

\* the full PC a + d of a relative jump fetched at a
Target(ins) == AddWide(0, ins.addr, pcrel_value(ins))

\* C4: a branch fetched at a with pcrel_value d leaves PC = a + d when its
\* condition holds and PC = a + 4 when it does not, and in both cases leaves
\* every register as it was; blt/bge compare signed, bltu/bgeu unsigned.
C4_Branch ==
    [][(phase = "exec" /\ cur.name \in BranchNames) =>
          /\ <<pc_hi', pc'>> =
                IF Taken(cur.name, vals[get_reg(cur, 0)], vals[get_reg(cur, 1)])
                THEN Target(cur)
                ELSE <<0, cur.addr + 4>>
          /\ vals' = vals]_vars

\* C4 for the branches whose target address is not 0: this part holds
C4_BranchNonZeroTarget ==
    [][(phase = "exec" /\ cur.name \in BranchNames /\ ~GetImmRaises(cur)) =>
          /\ <<pc_hi', pc'>> =
                IF Taken(cur.name, vals[get_reg(cur, 0)], vals[get_reg(cur, 1)])
                THEN Target(cur)
                ELSE <<0, cur.addr + 4>>
          /\ vals' = vals
          /\ ~halted']_vars

\* C8: jal fetched at a writes rd = a + 4 and sets PC = a + pcrel_value; with
\* no rd operand the link address goes to ra, register index 1.  Stated for
\* the jumps whose target address is not 0 (the others are C18's case).
C8_Jal ==
    [][(phase = "exec" /\ cur.name = "jal" /\ ~GetImmRaises(cur)) =>
          LET rd == IF cur.regs = <<>> THEN valid_regs["ra"]
                    ELSE get_reg(cur, 0)
          IN  /\ rd # 0 => vals'[rd] = cur.addr + 4
              /\ <<pc_hi', pc'>> = Target(cur)]_vars

\* a Python int <<hi, lo>> with bit 0 cleared
ClearBit0(w) == <<w[1], w[2] - (w[2] % 2)>>

\* C9: jalr rd, rs1, imm fetched at a writes rd = a + 4 and sets
\* PC = (rs1 + imm.abs_value) with bit 0 cleared, odd sums included.  Stated
\* for a non-zero immediate (zero is C18's case) and rd # rs1 (rd = rs1 is
\* C37's case).
C9_Jalr ==
    [][(/\ phase = "exec" /\ cur.name = "jalr" /\ ~GetImmRaises(cur)
        /\ get_reg(cur, 0) # get_reg(cur, 1)) =>
          LET rd == get_reg(cur, 0)
              u  == UnsignedWide(vals[get_reg(cur, 1)])
          IN  /\ rd # 0 => vals'[rd] = cur.addr + 4
              /\ <<pc_hi', pc'>> =
                    ClearBit0(AddWide(u[1], u[2], abs_value(cur)))]_vars

\* the handlers that assign to cpu.pc
ControlFlow == BranchNames \cup {"j", "jal", "jalr", "ret"}

\* C10: the order within a step is fixed: cycle + 1, fetch at the current
\* PC, PC + 4, and only then the handler; every handler observes
\* PC = address of the fetched instruction + 4, and a handler that is not a
\* control-flow instruction leaves PC there.
C10_StepOrder ==
    [][/\ (phase = "fetch" /\ phase' = "exec") =>
              /\ cycle' = cycle + 1
              /\ cur' = program[pc] /\ cur'.addr = pc /\ pc_hi = 0
              /\ <<pc_hi', pc'>> = <<0, pc + 4>>
              /\ vals' = vals
       /\ phase = "exec" =>
              /\ <<pc_hi, pc>> = <<0, cur.addr + 4>>
              /\ cycle' = cycle
              /\ cur.name \notin ControlFlow =>
                     <<pc_hi', pc'>> = <<0, cur.addr + 4>>]_vars

\* C10's case: two steps have run and the second was an addi that wrote t0
C10_Witness ==
    /\ Executed("addi") /\ ~halted
    /\ cycle = 2 /\ cur.addr = base_addr + 4
    /\ last_set = <<5>>
    /\ pc = cur.addr + 4

\* a step of CPU.step that ran its fetch half or its handler half
StepTaken == (phase = "fetch" /\ cycle' # cycle) \/ phase = "exec"

\* C11: every error raised during a CPU step (a fetch outside the program
\* image, a mnemonic with no handler, an exception inside a handler) sets
\* halted, and the step returns to run() instead of letting the error through.
C11_ErrorsHalt ==
    [][(StepTaken /\ raised' # "none") =>
          (halted' /\ phase' = "fetch")]_vars

\* C11 for the errors that are RV32IBaseException: this part holds
C11_CaughtErrorsHalt ==
    [][(StepTaken /\ raised' \in HaltingExceptions) =>
          (halted' /\ phase' = "fetch")]_vars

\* C12: read_ins(a) returns the instruction loaded at a for every a of the
\* program image and raises InvalidAddress for every other address, the
\* misaligned ones included.
C12_ReadIns ==
    [][(phase = "fetch" /\ cycle' # cycle) =>
          IF pc_hi = 0 /\ pc \in DOMAIN program
          THEN raised' = "none" /\ cur' = program[pc] /\ cur'.addr = pc
          ELSE raised' = "InvalidAddressException"]_vars

\* C12 for the addresses of the image: this part holds
C12_ReadInsInImage ==
    [][(phase = "fetch" /\ cycle' # cycle /\ pc_hi = 0
        /\ pc \in DOMAIN program) =>
          (raised' = "none" /\ cur' = program[pc] /\ cur'.addr = pc)]_vars

\* C18: get_imm of an instruction with the immediate v at address a gives
\* abs_value = v and pcrel_value = v - a, for v = 0 too: `addi rd, rs, 0`
\* copies rs into rd and neither raises nor halts.
C18_GetImm ==
    [][(phase = "exec" /\ cur.name = "addi" /\ cur.imm = <<0>>) =>
          /\ ~GetImmRaises(cur)
          /\ raised' = "none" /\ ~halted'
          /\ get_reg(cur, 0) # 0 =>
                vals'[get_reg(cur, 0)] = vals[get_reg(cur, 1)]]_vars

\* C18 for the immediates other than 0: this part holds
C18_GetImmNonZero ==
    [][(phase = "exec" /\ cur.name = "addi" /\ cur.imm # <<>>
        /\ cur.imm # <<0>>) =>
          /\ ~GetImmRaises(cur)
          /\ abs_value(cur) = cur.imm[1]
          /\ pcrel_value(cur) = Sub32(cur.imm[1], cur.addr)
          /\ raised' = "none" /\ ~halted'
          /\ get_reg(cur, 0) # 0 =>
                vals'[get_reg(cur, 0)] =
                    Add32(vals[get_reg(cur, 1)], cur.imm[1])]_vars

\* the load `cur` directly follows, as the second instruction of the
\* program, a store of the width `st` to the same rs1 + imm
LoadsBack(st, ld) ==
    /\ phase = "exec" /\ cycle = 2 /\ cur.name = ld
    /\ cur.addr = base_addr + 4
    /\ program[base_addr].name = st
    /\ get_reg(program[base_addr], 1) = get_reg(cur, 1)
    /\ program[base_addr].imm = cur.imm

\* C19: a load from A after a store of the same width to A returns the low
\* bytes stored: `sw` then `lw` gives the whole register, `sb` then `lbu`
\* its low byte.  Stated for a non-zero immediate (zero is C18's case).
C19_StoreLoad ==
    [][/\ LoadsBack("sw", "lw") =>
            /\ raised' = "none"
            /\ vals'[get_reg(cur, 0)] = vals[get_reg(program[base_addr], 0)]
       /\ LoadsBack("sb", "lbu") =>
            /\ raised' = "none"
            /\ vals'[get_reg(cur, 0)] =
                  vals[get_reg(program[base_addr], 0)] % 256]_vars

-----------------------------------------------------------------------------
(* The encoder: operand tokens *)

\* the digits of a non-negative number, most significant first
RECURSIVE DecDigits(_)
DecDigits(n) == IF n < 10 THEN <<n>> ELSE Append(DecDigits(n \div 10), n % 10)

\* the decimal literal a source line writes for the number n
NumTok(n) == [sign |-> IF n < 0 THEN "-" ELSE "",
              digits |-> DecDigits(IF n < 0 THEN 0 - n ELSE n)]

\* the canonical register token "x<n>"
RegTok(n) == [prefix |-> "x", digits |-> DecDigits(n)]

\* the operand "imm(reg)" of a load
MemTok(imm, reg) == [imm |-> imm, reg |-> reg]

\* the value of a string of decimal digits
RECURSIVE DecValue(_)
DecValue(ds) ==
    IF ds = <<>> THEN 0
    ELSE 10 * DecValue(SubSeq(ds, 1, Len(ds) - 1)) + ds[Len(ds)]

\* is_expr on a decimal literal: a leading "-" is lexed as an OP, which no
\* factor starts with, so only unsigned literals are expressions
is_expr(tok) == tok.sign = "" /\ tok.digits # <<>>

\* int(imm) raises ValueError on the empty string
IntRaises(tok) == tok.digits = <<>>

\* int(imm) on a decimal literal
PyInt(tok) ==
    IF tok.sign = "-" THEN 0 - DecValue(tok.digits) ELSE DecValue(tok.digits)

\* eval(imm) if is_expr(imm) else int(imm)
IntOf(tok) == IF is_expr(tok) THEN DecValue(tok.digits) ELSE PyInt(tok)

\* RV32InstrInfo.extract_reg_num raises ValueError: no match of x(\d+)$
RegNumRaises(tok) == tok.prefix # "x" \/ tok.digits = <<>>

\* RV32InstrInfo.extract_reg_num
extract_reg_num(tok) == DecValue(tok.digits)

\* reg_map on a canonical name: the "x" pattern returns the name unchanged
reg_map(tok) == tok

\* extract_imm_reg that loses the immediate
extract_imm_reg_Zero(tok) == <<0, reg_map(tok.reg)>>

\* RV32InstrInfo.extract_imm_reg on "imm(reg)": the pair (int, str) with
\* imm = eval(imm) if is_expr(imm) else int(imm)
extract_imm_reg(tok) == <<IntOf(tok.imm), reg_map(tok.reg)>>

-----------------------------------------------------------------------------
(* The encoder: words *)

\* bit j of a field value (fields are below 2^30)
Bit(v, j) == IF j >= 30 THEN 0 ELSE (v \div (2 ^ j)) % 2

\* a | b on non-negative integers
RECURSIVE BitOr(_, _)
BitOr(a, b) ==
    IF a = 0 THEN b
    ELSE IF b = 0 THEN a
    ELSE (IF a % 2 = 1 \/ b % 2 = 1 THEN 1 ELSE 0)
         + 2 * BitOr(a \div 2, b \div 2)

\* format(f1 << s1 | f2 << s2 | ..., '032b'): the 32 characters, bit 31 first
Format032b(fields) ==
    [k \in 1 .. 32 |->
        IF \E n \in 1 .. Len(fields) :
              /\ 32 - k >= fields[n][2]
              /\ Bit(fields[n][1], (32 - k) - fields[n][2]) = 1
        THEN 1 ELSE 0]

\* the number in bits hi .. lo of a word printed by format(.., '032b')
RECURSIVE BitsValue(_, _, _)
BitsValue(bin, hi, lo) ==
    IF hi < lo THEN 0
    ELSE bin[32 - hi] * (2 ^ (hi - lo)) + BitsValue(bin, hi - 1, lo)

Encoded(bin) == [err |-> "none", bin |-> bin]
EncRaise(e) == [err |-> e, bin |-> <<>>]

\* parse_B_type: instr_map
B_instr_map ==
    [beq  |-> [funct3 |-> 0, opcode |-> 99],
     bne  |-> [funct3 |-> 1, opcode |-> 99],
     blt  |-> [funct3 |-> 4, opcode |-> 99],
     bge  |-> [funct3 |-> 5, opcode |-> 99],
     bltu |-> [funct3 |-> 6, opcode |-> 99],
     bgeu |-> [funct3 |-> 7, opcode |-> 99]]

\* RV32InstrInfo.parse_B_type(op, args)
parse_B_type(op, args) ==
    IF op \notin DOMAIN B_instr_map THEN EncRaise("ValueError")
    ELSE IF Len(args) # 3 THEN EncRaise("ValueError")
    ELSE IF RegNumRaises(args[1]) \/ RegNumRaises(args[2])
         THEN EncRaise("ValueError")
    ELSE IF IntRaises(args[3]) THEN EncRaise("ValueError")
    ELSE LET funct3 == B_instr_map[op].funct3
             opcode == B_instr_map[op].opcode
             rs1_num == extract_reg_num(args[1])
             rs2_num == extract_reg_num(args[2])
             imm_13 == PyInt(args[3]) % 8192
             imm_12 == (imm_13 \div 4096) % 2
             imm_10_5 == (imm_13 \div 32) % 64
             imm_4_1 == (imm_13 \div 2) % 16
             imm_11 == (imm_13 \div 2048) % 2
             imm_31_25 == BitOr(imm_12 * 64, imm_10_5)
             imm_11_7 == BitOr(imm_11 * 64, imm_4_1)
         IN  Encoded(Format032b(<< <<imm_31_25, 25>>, <<rs2_num, 20>>,
                                   <<rs1_num, 15>>, <<funct3, 12>>,
                                   <<imm_11_7, 7>>, <<opcode, 0>> >>))

\* parse_J_type with imm[11] and imm[10:1] in each other's place
parse_J_type_Swapped(op, args) ==
    IF op # "jal" THEN EncRaise("ValueError")
    ELSE IF Len(args) # 2 THEN EncRaise("ValueError")
    ELSE IF IntRaises(args[2]) \/ RegNumRaises(args[1])
         THEN EncRaise("ValueError")
    ELSE LET rd_num == extract_reg_num(args[1])
             imm_21 == IntOf(args[2]) % 2097152
             imm_20 == (imm_21 \div 1048576) % 2
             imm_10_1 == (imm_21 \div 2) % 1024
             imm_11 == (imm_21 \div 2048) % 2
             imm_19_12 == (imm_21 \div 4096) % 256
         IN  Encoded(Format032b(<< <<imm_20, 31>>, <<imm_19_12, 12>>,
                                   <<imm_11, 30>>, <<imm_10_1, 20>>,
                                   <<rd_num, 7>>, <<111, 0>> >>))

\* RV32InstrInfo.parse_J_type(op, args)
parse_J_type(op, args) ==
    IF op # "jal" THEN EncRaise("ValueError")
    ELSE IF Len(args) # 2 THEN EncRaise("ValueError")
    ELSE IF IntRaises(args[2]) \/ RegNumRaises(args[1])
         THEN EncRaise("ValueError")
    ELSE LET rd_num == extract_reg_num(args[1])
             imm_21 == IntOf(args[2]) % 2097152
             imm_20 == (imm_21 \div 1048576) % 2
             imm_10_1 == (imm_21 \div 2) % 1024
             imm_11 == (imm_21 \div 2048) % 2
             imm_19_12 == (imm_21 \div 4096) % 256
         IN  Encoded(Format032b(<< <<imm_20 % 2, 31>>,
                                   <<imm_19_12 % 256, 12>>,
                                   <<imm_11 % 2, 20>>,
                                   <<imm_10_1 % 1024, 21>>,
                                   <<rd_num, 7>>, <<111, 0>> >>))

\* parse_I_type: instr_map (funct7 = -1 where the entry has none)
I_instr_map ==
    [addi   |-> [funct3 |-> 0, opcode |-> 19, funct7 |-> -1],
     xori   |-> [funct3 |-> 4, opcode |-> 19, funct7 |-> -1],
     ori    |-> [funct3 |-> 6, opcode |-> 19, funct7 |-> -1],
     andi   |-> [funct3 |-> 7, opcode |-> 19, funct7 |-> -1],
     slti   |-> [funct3 |-> 2, opcode |-> 19, funct7 |-> -1],
     sltiu  |-> [funct3 |-> 3, opcode |-> 19, funct7 |-> -1],
     slli   |-> [funct3 |-> 1, opcode |-> 19, funct7 |-> 0],
     srli   |-> [funct3 |-> 5, opcode |-> 19, funct7 |-> 0],
     srai   |-> [funct3 |-> 5, opcode |-> 19, funct7 |-> 32],
     lb     |-> [funct3 |-> 0, opcode |-> 3, funct7 |-> -1],
     lh     |-> [funct3 |-> 1, opcode |-> 3, funct7 |-> -1],
     lw     |-> [funct3 |-> 2, opcode |-> 3, funct7 |-> -1],
     lbu    |-> [funct3 |-> 4, opcode |-> 3, funct7 |-> -1],
     lhu    |-> [funct3 |-> 5, opcode |-> 3, funct7 |-> -1],
     jalr   |-> [funct3 |-> 0, opcode |-> 103, funct7 |-> -1],
     ecall  |-> [funct3 |-> 0, opcode |-> 115, funct7 |-> 0],
     ebreak |-> [funct3 |-> 0, opcode |-> 115, funct7 |-> 1]]

\* extract_imm_reg finds no "imm(reg)" in the operand, or int('') fails
ImmRegRaises(tok) ==
    \/ "reg" \notin DOMAIN tok
    \/ IntRaises(tok.imm)

\* parse_I_type: `rd, rs1, imm = args; imm = extract_imm_num(imm)` or
\* `rd = args[0]; imm, rs1 = extract_imm_reg(args[1])`.  imm is what the
\* later int(imm) gives, int_raises whether that int(imm) raises.
I_operands(args) ==
    IF Len(args) = 3
    THEN [err |-> "none", rd |-> args[1], rs1 |-> args[2],
          int_raises |-> IntRaises(args[3]), imm |-> IntOf(args[3])]
    ELSE IF Len(args) = 2
    THEN IF ImmRegRaises(args[2])
         THEN [err |-> "ValueError"]
         ELSE [err |-> "none", rd |-> args[1],
               rs1 |-> extract_imm_reg(args[2])[2],
               int_raises |-> FALSE,
               imm |-> extract_imm_reg(args[2])[1]]
    ELSE [err |-> "UnboundLocalError"]

\* RV32InstrInfo.parse_I_type(op, args)
parse_I_type(op, args) ==
    IF op \notin DOMAIN I_instr_map THEN EncRaise("ValueError")
    ELSE LET funct3 == I_instr_map[op].funct3
             opcode == I_instr_map[op].opcode
             funct7 == I_instr_map[op].funct7
             o == I_operands(args)
         IN  IF o.err = "ValueError" THEN EncRaise("ValueError")
             ELSE IF op \in {"ecall", "ebreak"}
             THEN Encoded(Format032b(<<
                      <<IF op = "ecall" THEN 0 ELSE 1, 20>>, <<0, 15>>,
                      <<funct3, 12>>, <<0, 7>>, <<opcode, 0>> >>))
             ELSE IF o.err # "none" THEN EncRaise(o.err)
             ELSE IF RegNumRaises(o.rd) \/ RegNumRaises(o.rs1)
                     \/ o.int_raises
             THEN EncRaise("ValueError")
             ELSE LET rd_num == extract_reg_num(o.rd)
                      rs1_num == extract_reg_num(o.rs1)
                  IN  IF op \in {"slli", "srli", "srai"}
                      THEN Encoded(Format032b(<<
                               <<funct7, 25>>, <<o.imm % 64, 20>>,
                               <<rs1_num, 15>>, <<funct3, 12>>,
                               <<rd_num, 7>>, <<opcode, 0>> >>))
                      ELSE Encoded(Format032b(<<
                               <<o.imm % 4096, 20>>,
                               <<rs1_num, 15>>, <<funct3, 12>>,
                               <<rd_num, 7>>, <<opcode, 0>> >>))

\* parse_U_type: instr_map
U_instr_map == [lui |-> [opcode |-> 55], auipc |-> [opcode |-> 23]]

\* the operand "%hi(e)" or "%pcrel_hi(e)"; e is a decimal literal or
\* "l op r" with two decimal literals
HiTok(pct, e) == [pct |-> pct, e |-> e]
BinTok(l, op, r) == [l |-> l, op |-> op, r |-> r]

\* the value of the expression e as it is written
ExprValue(e) ==
    IF "op" \in DOMAIN e
    THEN IF e.op = "|" THEN BitOr(PyInt(e.l), PyInt(e.r))
         ELSE PyInt(e.l) + PyInt(e.r)
    ELSE PyInt(e)

\* is_expr(e + '>> 12'): every number of e has to be lexed as a NUMBER
ShiftedIsExpr(e) ==
    IF "op" \in DOMAIN e THEN is_expr(e.l) /\ is_expr(e.r) ELSE is_expr(e)

\* eval(e + '>> 12'): the shift binds tighter than | and looser than +
ShiftedEval(e) ==
    IF "op" \in DOMAIN e
    THEN IF e.op = "|" THEN BitOr(PyInt(e.l), PyInt(e.r) \div 4096)
         ELSE (PyInt(e.l) + PyInt(e.r)) \div 4096
    ELSE PyInt(e) \div 4096

\* parse_U_type: `imm = eval(imm) if is_expr(imm) else int(imm)` after the
\* rewriting of %hi(e) / %pcrel_hi(e) into e + '>> 12'; int() of a string
\* holding '>> 12' raises ValueError
U_imm(tok) ==
    IF "pct" \in DOMAIN tok
    THEN IF ShiftedIsExpr(tok.e)
         THEN [raises |-> FALSE, imm |-> ShiftedEval(tok.e)]
         ELSE [raises |-> TRUE, imm |-> 0]
    ELSE [raises |-> IntRaises(tok), imm |-> IntOf(tok)]

\* RV32InstrInfo.parse_U_type(op, args)
parse_U_type(op, args) ==
    IF op \notin DOMAIN U_instr_map THEN EncRaise("ValueError")
    ELSE IF Len(args) # 2 THEN EncRaise("ValueError")
    ELSE IF U_imm(args[2]).raises THEN EncRaise("ValueError")
    ELSE IF RegNumRaises(args[1]) THEN EncRaise("ValueError")
    ELSE LET opcode == U_instr_map[op].opcode
             rd_num == extract_reg_num(args[1])
             imm_20 == U_imm(args[2]).imm % 1048576
         IN  Encoded(Format032b(<< <<imm_20, 12>>, <<rd_num, 7>>,
                                   <<opcode, 0>> >>))

\* InstrInfo.instr_map for the mnemonics whose parse methods are modelled
\* (it is loaded from data/rv32i.json)
instr_map ==
    [op \in DOMAIN B_instr_map \cup DOMAIN I_instr_map
             \cup DOMAIN U_instr_map \cup {"jal"} |->
        IF op \in DOMAIN B_instr_map THEN "B"
        ELSE IF op \in DOMAIN I_instr_map THEN "I"
        ELSE IF op \in DOMAIN U_instr_map THEN "U"
        ELSE "J"]

\* RV32InstrInfo.parse(op, args)
parse(op, args) ==
    IF op \notin DOMAIN instr_map THEN EncRaise("ValueError")
    ELSE CASE instr_map[op] = "B" -> parse_B_type(op, args)
           [] instr_map[op] = "I" -> parse_I_type(op, args)
           [] instr_map[op] = "U" -> parse_U_type(op, args)
           [] instr_map[op] = "J" -> parse_J_type(op, args)

-----------------------------------------------------------------------------
(* The encoder: the calls it is checked on *)

EncRegs == {0, 1, 2, 4, 8, 16, 31}
BOffsets == {-4096, -4094, -2048, -2, 0, 1364, 2730, 4094}
               \cup {2 ^ k : k \in 1 .. 11}
JOffsets == {-1048576, -1048574, -2048, -2, 0, 349524, 699050, 1048574}
               \cup {2 ^ k : k \in 1 .. 19}
IImms == {-2048, -2047, -1, 0, 682, 1365, 2047} \cup {2 ^ k : k \in 0 .. 10}
IOps == {"addi", "xori", "ori", "andi", "slti", "sltiu",
         "lb", "lh", "lw", "lbu", "lhu", "jalr"}
LoadOps == {"lb", "lh", "lw", "lbu", "lhu"}
ShiftOps == {"slli", "srli", "srai"}
ShiftImms == {-1, 0, 1, 5, 31, 32, 33, 63, 64}
\* immediates outside the range of their field: signed 12 bits for I,
\* signed 13 bits for B, signed 21 bits for J, 20 bits for U
RangeCalls ==
    {<<op, <<RegTok(rd), RegTok(r1), NumTok(i)>>, <<rd, r1, i>>>> :
        op \in {"addi", "andi", "lw"}, rd \in {1, 31}, r1 \in {0, 2},
        i \in {-4097, -2049, 2048, 4096, 4097}}
    \cup {<<op, <<RegTok(r1), RegTok(r2), NumTok(i)>>, <<r1, r2, i>>>> :
        op \in {"beq", "bltu"}, r1 \in {1, 31}, r2 \in {0, 2},
        i \in {-8192, -4098, 4096, 4098, 8192}}
    \cup {<<"jal", <<RegTok(rd), NumTok(i)>>, <<rd, i>>>> :
        rd \in {0, 1}, i \in {-2097152, -1048578, 1048576, 2097152}}
    \cup {<<op, <<RegTok(rd), NumTok(i)>>, <<rd, i>>>> :
        op \in {"lui", "auipc"}, rd \in {5, 31}, i \in {-1, 1048576, 1048577}}

\* well-formed mnemonics that are not in the ISA table
UnknownOps == {"mul", "div", "foo"}

\* register numbers written x<n> that are no RV32I register
BadRegs == {32, 33, 64, 99}

UImms == {-1, 0, 74565, 349525, 699050, 1048575, 1048576}
            \cup {2 ^ k : k \in 0 .. 19}
HiExprs == {NumTok(n) : n \in {-4096, -1, 0, 4095, 4096, 8192, 305419896}}
              \cup {BinTok(NumTok(l), op, NumTok(4096)) :
                        l \in {1, 4096}, op \in {"|", "+"}}

\* a call parse_X_type(op, args); nums are the numbers the tokens were
\* written from
Call(type, op, args, nums) ==
    [type |-> type, op |-> op, args |-> args, nums |-> nums]

EncCalls ==
    {Call("B", op, <<RegTok(r1), RegTok(r2), NumTok(i)>>, <<r1, r2, i>>) :
        op \in DOMAIN B_instr_map, r1 \in EncRegs, r2 \in EncRegs,
        i \in BOffsets}
    \cup {Call("J", "jal", <<RegTok(rd), NumTok(i)>>, <<rd, i>>) :
        rd \in EncRegs, i \in JOffsets}
    \cup {Call("I", op, <<RegTok(rd), RegTok(r1), NumTok(i)>>, <<rd, r1, i>>) :
        op \in IOps, rd \in EncRegs, r1 \in EncRegs, i \in IImms}
    \cup {Call("I", op, <<RegTok(rd), MemTok(NumTok(i), RegTok(r1))>>,
               <<rd, r1, i>>) :
        op \in LoadOps, rd \in EncRegs, r1 \in EncRegs, i \in IImms}
    \cup {Call("shift", op, <<RegTok(rd), RegTok(r1), NumTok(i)>>,
               <<rd, r1, i>>) :
        op \in ShiftOps, rd \in EncRegs, r1 \in EncRegs, i \in ShiftImms}
    \cup {Call("U", op, <<RegTok(rd), NumTok(i)>>, <<rd, i>>) :
        op \in DOMAIN U_instr_map, rd \in EncRegs, i \in UImms}
    \cup {Call("Uhi", op, <<RegTok(rd), HiTok(pct, e)>>, <<rd, ExprValue(e)>>) :
        op \in DOMAIN U_instr_map, rd \in EncRegs,
        pct \in {"hi", "pcrel_hi"}, e \in HiExprs}
    \cup {Call("range", c[1], c[2], c[3]) : c \in RangeCalls}
    \cup {Call("unknown", op, <<RegTok(rd), RegTok(r1), RegTok(r2)>>,
               <<rd, r1, r2>>) :
        op \in UnknownOps, rd \in EncRegs, r1 \in EncRegs, r2 \in EncRegs}
    \cup {c \in {Call("badreg", op, <<RegTok(rd), RegTok(r1), NumTok(i)>>,
                       <<rd, r1, i>>) :
                      op \in {"addi", "beq"}, rd \in BadRegs \cup {1, 31},
                      r1 \in BadRegs \cup {0, 2}, i \in {-2, 0, 8}} :
              c.nums[1] \in BadRegs \/ c.nums[2] \in BadRegs}

Pending == [err |-> "pending", bin |-> <<>>]

\* CPU.__init__: the CPU before launch
CpuFresh ==
    /\ vals = [k \in RegKeys |-> 0]
    /\ last_set = <<>>
    /\ last_read = <<>>
    /\ pc = 0
    /\ pc_hi = 0
    /\ cycle = 0
    /\ halted = FALSE
    /\ phase = "idle"
    /\ cur = NoIns
    /\ raised = "none"
    /\ debugger_active = FALSE
    /\ ret = <<>>

\* the emulator while another part of the program is exercised
CpuIdle ==
    /\ base_addr = BASE_ADDR
    /\ program = EmptyMap
    /\ mmu_size = 0
    /\ CpuFresh

InitEnc ==
    /\ enc_in \in EncCalls
    /\ enc_out = Pending
    /\ bin_file = <<>>
    /\ CpuIdle
    /\ AsmIdle

EncodeB ==
    /\ enc_out = Pending /\ enc_in.type = "B"
    /\ enc_out' = parse_B_type(enc_in.op, enc_in.args)
    /\ UNCHANGED <<enc_in, bin_file, cpuVars, asmVars>>

EncodeJ ==
    /\ enc_out = Pending /\ enc_in.type = "J"
    /\ enc_out' = parse_J_type(enc_in.op, enc_in.args)
    /\ UNCHANGED <<enc_in, bin_file, cpuVars, asmVars>>

EncodeI ==
    /\ enc_out = Pending /\ enc_in.type = "I"
    /\ enc_out' = parse_I_type(enc_in.op, enc_in.args)
    /\ UNCHANGED <<enc_in, bin_file, cpuVars, asmVars>>

\* parse_I_type called for a shift-immediate
EncodeShift ==
    /\ enc_out = Pending /\ enc_in.type = "shift"
    /\ enc_out' = parse_I_type(enc_in.op, enc_in.args)
    /\ UNCHANGED <<enc_in, bin_file, cpuVars, asmVars>>

EncodeU ==
    /\ enc_out = Pending /\ enc_in.type \in {"U", "Uhi"}
    /\ enc_out' = parse_U_type(enc_in.op, enc_in.args)
    /\ UNCHANGED <<enc_in, bin_file, cpuVars, asmVars>>

\* RV32InstrInfo.parse called with an immediate out of range, a mnemonic
\* that is not in the table, or a register operand x<n> with n > 31
EncodeParse ==
    /\ enc_out = Pending /\ enc_in.type \in {"range", "unknown", "badreg"}
    /\ enc_out' = parse(enc_in.op, enc_in.args)
    /\ UNCHANGED <<enc_in, bin_file, cpuVars, asmVars>>

\* instr[i:i+8] for i in range(0, len(instr), 8), each read by int(b, 2)
byte_list(instr) ==
    [n \in 1 .. 4 |-> BitsValue(instr, 39 - 8 * n, 32 - 8 * n)]

\* write_to_file(output, file) for a file named *.bin: the bytes written
RECURSIVE write_to_file(_)
write_to_file(output) ==
    IF output = <<>> THEN <<>>
    ELSE byte_list(output[1]) \o write_to_file(Tail(output))

\* RV32Backend.apply_hex: '0x{:08x}'.format(int(elem, 2) & 0xFFFFFFFF), the
\* eight hexadecimal digits
apply_hex(elem) == [n \in 1 .. 8 |-> BitsValue(elem, 35 - 4 * n, 32 - 4 * n)]

\* parse_cmd, -show-encoding: int(encoding, 16).to_bytes(4,
\* byteorder='little'), the least significant pair of digits first
encoding_bytes(encoding) ==
    [n \in 1 .. 4 |-> 16 * encoding[9 - 2 * n] + encoding[10 - 2 * n]]

\* the word of `addi x0, x0, 0`, the instruction that follows the encoded
\* one in the output written
NopWord == Format032b(<< <<19, 0>> >>)

\* parse_cmd, -bin: write_to_file(mc.emit_code(EmitCodeMode.BIN), file) for
\* the program of the encoded instruction followed by a nop
WriteBin ==
    /\ enc_out # Pending /\ enc_out.err = "none"
    /\ bin_file = <<>>
    /\ bin_file' = write_to_file(<<enc_out.bin, NopWord>>)
    /\ UNCHANGED <<enc_in, enc_out, cpuVars, asmVars>>

NextEnc ==
    \/ EncodeB \/ EncodeJ \/ EncodeI \/ EncodeShift \/ EncodeU \/ EncodeParse
    \/ WriteBin

SpecEnc == InitEnc /\ [][NextEnc]_vars

-----------------------------------------------------------------------------
(* Properties of the encoder, checked under SpecEnc *)

\* funct3 of the RV32I base instruction set
RefFunct3 ==
    [beq |-> 0, bne |-> 1, blt |-> 4, bge |-> 5, bltu |-> 6, bgeu |-> 7,
     addi |-> 0, slti |-> 2, sltiu |-> 3, xori |-> 4, ori |-> 6, andi |-> 7,
     lb |-> 0, lh |-> 1, lw |-> 2, lbu |-> 4, lhu |-> 5, jalr |-> 0]

\* major opcodes of the RV32I base instruction set
RefOpcode(op) ==
    IF op \in LoadOps THEN 3
    ELSE IF op = "jalr" THEN 103
    ELSE IF op = "jal" THEN 111
    ELSE IF op \in DOMAIN B_instr_map THEN 99
    ELSE 19

Returned(type) == enc_in.type = type /\ enc_out # Pending

\* C5: a B-type word has imm[12] at bit 31, imm[10:5] at bits 30:25,
\* imm[4:1] at bits 11:8, imm[11] at bit 7, rs2 at 24:20, rs1 at 19:15,
\* funct3 at 14:12 and opcode 1100011 at 6:0.
C5_BType ==
    Returned("B") =>
        LET imm == enc_in.nums[3] % 8192
            w == enc_out.bin
        IN  /\ enc_out.err = "none"
            /\ BitsValue(w, 31, 31) = (imm \div 4096) % 2
            /\ BitsValue(w, 30, 25) = (imm \div 32) % 64
            /\ BitsValue(w, 11, 8) = (imm \div 2) % 16
            /\ BitsValue(w, 7, 7) = (imm \div 2048) % 2
            /\ BitsValue(w, 24, 20) = enc_in.nums[2]
            /\ BitsValue(w, 19, 15) = enc_in.nums[1]
            /\ BitsValue(w, 14, 12) = RefFunct3[enc_in.op]
            /\ BitsValue(w, 6, 0) = RefOpcode(enc_in.op)

\* C6: a jal word has imm[20] at bit 31, imm[10:1] at bits 30:21, imm[11] at
\* bit 20, imm[19:12] at bits 19:12, rd at 11:7 and opcode 1101111 at 6:0.
C6_JType ==
    Returned("J") =>
        LET imm == enc_in.nums[2] % 2097152
            w == enc_out.bin
        IN  /\ enc_out.err = "none"
            /\ BitsValue(w, 31, 31) = (imm \div 1048576) % 2
            /\ BitsValue(w, 30, 21) = (imm \div 2) % 1024
            /\ BitsValue(w, 20, 20) = (imm \div 2048) % 2
            /\ BitsValue(w, 19, 12) = (imm \div 4096) % 256
            /\ BitsValue(w, 11, 7) = enc_in.nums[1]
            /\ BitsValue(w, 6, 0) = RefOpcode(enc_in.op)

\* C6's case: jal x31 with a negative offset whose imm[11] and imm[10:1]
\* differ has been encoded
C6_Witness ==
    /\ Returned("J") /\ enc_out.err = "none"
    /\ enc_in.nums = <<31, -2048>>

\* C7: a non-shift I-type word is (imm mod 2^12) << 20 | rs1 << 15 |
\* funct3 << 12 | rd << 7 | opcode, and the load syntax `rd, imm(rs1)` gives
\* the same word as the three-operand form.
C7_IType ==
    Returned("I") =>
        LET rd == enc_in.nums[1]
            rs1 == enc_in.nums[2]
            imm == enc_in.nums[3]
            w == enc_out.bin
        IN  /\ enc_out.err = "none"
            /\ BitsValue(w, 31, 20) = imm % 4096
            /\ BitsValue(w, 19, 15) = rs1
            /\ BitsValue(w, 14, 12) = RefFunct3[enc_in.op]
            /\ BitsValue(w, 11, 7) = rd
            /\ BitsValue(w, 6, 0) = RefOpcode(enc_in.op)
            /\ Len(enc_in.args) = 2 =>
                  enc_out = parse_I_type(enc_in.op,
                               <<RegTok(rd), RegTok(rs1), NumTok(imm)>>)

\* C7's case: a load written `rd, imm(rs1)` with a negative immediate has
\* been encoded
C7_Witness ==
    /\ Returned("I") /\ enc_out.err = "none"
    /\ enc_in.op = "lw" /\ Len(enc_in.args) = 2
    /\ enc_in.nums = <<1, 2, -1>>

\* funct7 of the shift-immediates of the RV32I base instruction set
RefFunct7 == [slli |-> 0, srli |-> 0, srai |-> 32]

\* C20: for slli, srli and srai and every immediate, bits 24:20 of the word
\* are imm & 0x1F and bits 31:25 are the mnemonic's funct7 (0000000 for
\* slli / srli, 0100000 for srai).
C20_Shift ==
    Returned("shift") =>
        LET w == enc_out.bin
        IN  /\ enc_out.err = "none"
            /\ BitsValue(w, 24, 20) = enc_in.nums[3] % 32
            /\ BitsValue(w, 31, 25) = RefFunct7[enc_in.op]

\* C20 for the immediates 0 .. 31: this part holds
C20_ShiftInRange ==
    (Returned("shift") /\ enc_in.nums[3] \in 0 .. 31) =>
        LET w == enc_out.bin
        IN  /\ enc_out.err = "none"
            /\ BitsValue(w, 24, 20) = enc_in.nums[3]
            /\ BitsValue(w, 31, 25) = RefFunct7[enc_in.op]
            /\ BitsValue(w, 19, 15) = enc_in.nums[2]
            /\ BitsValue(w, 11, 7) = enc_in.nums[1]
            /\ BitsValue(w, 6, 0) = 19

\* the U-type word with this 20-bit field has been returned
UWord(field) ==
    LET w == enc_out.bin
    IN  /\ enc_out.err = "none"
        /\ BitsValue(w, 31, 12) = field
        /\ BitsValue(w, 11, 7) = enc_in.nums[1]
        /\ BitsValue(w, 6, 0) = (IF enc_in.op = "lui" THEN 55 ELSE 23)

\* C21: for lui and auipc with an immediate v in [0, 2^20) the word is
\* v << 12 | rd << 7 | opcode; with the operand written %hi(e) or
\* %pcrel_hi(e) the immediate field is (e >> 12) & 0xFFFFF.
C21_UType ==
    /\ (Returned("U") /\ enc_in.nums[2] \in 0 .. 1048575)
       => UWord(enc_in.nums[2])
    /\ Returned("Uhi") => UWord((enc_in.nums[2] \div 4096) % 1048576)

\* C21 for plain immediates and for %hi / %pcrel_hi of one literal that is
\* not negative: this part holds
C21_UTypeLiteral ==
    /\ (Returned("U") /\ enc_in.nums[2] \in 0 .. 1048575)
       => UWord(enc_in.nums[2])
    /\ (/\ Returned("Uhi")
        /\ "op" \notin DOMAIN enc_in.args[2].e
        /\ enc_in.nums[2] >= 0)
       => UWord((enc_in.nums[2] \div 4096) % 1048576)

\* C22: encoding an instruction whose immediate lies outside the range of
\* its field raises ImmediateOutOfRange and emits no word; a masked,
\* silently truncated word is never produced.
C22_OutOfRange ==
    Returned("range") =>
        enc_out.err = "ImmediateOutOfRange" /\ enc_out.bin = <<>>

\* the errors the driver catches: the subclasses of RV32IBaseException
DomainErrors ==
    HaltingExceptions \cup {"UnknownAssemblyException",
                            "LaunchDebuggerException",
                            "ProgramNormalExitException"}

\* C23: encoding a well-formed mnemonic that is absent from the ISA table
\* raises a domain error of the assembler, which the driver catches as an
\* assembly failure, and emits no word.
C23_Unsupported ==
    Returned("unknown") =>
        enc_out.err \in DomainErrors /\ enc_out.bin = <<>>

\* C23 without the kind of the error: an exception is raised and no word is
\* emitted; this part holds
C23_NoWord ==
    Returned("unknown") => enc_out.err # "none" /\ enc_out.bin = <<>>

\* C24: a register slot holding x<n> with n > 31 raises InvalidRegister, so
\* every emitted word has each register field in 0 .. 31.
C24_InvalidRegister ==
    Returned("badreg") =>
        enc_out.err = "InvalidRegisterException" /\ enc_out.bin = <<>>

-----------------------------------------------------------------------------
(* The assembler front end: source lines *)

\* A source line after the comment is cut off and the line is stripped:
\*   dot    the name after a leading "."            ("" when there is none)
\*   label  the \w+ before a leading ":"            ("" when there is none)
\*   words  the remaining tokens, a mnemonic first
\* A token is a mnemonic or name (kind "word"), a register ("reg"), a symbol
\* ("sym"), a number ("num") or a macro parameter \name ("param").
\* The names the source lines use, as Python sees them: strings of
\* characters ("" is the text of a number token)
Chars ==
    [i \in {""} |-> <<>>] @@
    [nop |-> <<"n", "o", "p">>, NOP |-> <<"N", "O", "P">>,
     addi |-> <<"a", "d", "d", "i">>, j |-> <<"j">>, J |-> <<"J">>,
     li |-> <<"l", "i">>,
     inc |-> <<"i", "n", "c">>, twice |-> <<"t", "w", "i", "c", "e">>,
     m |-> <<"m">>, r |-> <<"r">>, rs |-> <<"r", "s">>,
     add |-> <<"a", "d", "d">>, sum |-> <<"s", "u", "m">>,
     t0s |-> <<"t", "0", "s">>,
     t0 |-> <<"t", "0">>, t1 |-> <<"t", "1">>, x0 |-> <<"x", "0">>,
     a0 |-> <<"a", "0">>,
     a |-> <<"a">>, b |-> <<"b">>, k |-> <<"k">>, K |-> <<"K">>,
     lab |-> <<"l", "a", "b">>,
     loop |-> <<"l", "o", "o", "p">>, Loop |-> <<"L", "o", "o", "p">>,
     LOOP |-> <<"L", "O", "O", "P">>,
     loop2 |-> <<"l", "o", "o", "p", "2">>]

\* the name spelt by a string of characters
NameOf(cs) == CHOOSE n \in DOMAIN Chars : Chars[n] = cs

\* str.lower() on one character
LowerChar(c) ==
    CASE c = "J" -> "j" [] c = "K" -> "k" [] c = "L" -> "l" [] c = "N" -> "n"
      [] c = "O" -> "o" [] c = "P" -> "p" [] OTHER -> c

\* the decimal digits as characters
DigitChars == <<"0", "1", "2", "3", "4", "5", "6", "7", "8", "9">>

Word(t) == [kind |-> "word", text |-> t, num |-> 0]
Reg(t) == [kind |-> "reg", text |-> t, num |-> 0]
Sym(t) == [kind |-> "sym", text |-> t, num |-> 0]
Num(n) == [kind |-> "num", text |-> "", num |-> n]
Param(t) == [kind |-> "param", text |-> t, num |-> 0]

SrcLine(dot, label, words) == [dot |-> dot, label |-> label, words |-> words]

\* `if not line`
IsEmptyLine(line) == line.dot = "" /\ line.label = "" /\ line.words = <<>>

\* macro_def_pattern: ^\s*\.macro\s+(\w+)(?:\s+(.*))?
macro_def_match(line) == line.dot = "macro" /\ line.words # <<>>

\* a pattern for the end of a macro that matches no line
macro_end_match_Never(line) == FALSE

\* macro_end_pattern: ^\s*\.endm
macro_end_match(line) == line.dot = "endm"

\* directive_pattern: ^\s*\.(\w+)\b\s*(.*)
directive_match(line) == line.dot # ""

\* label_pattern: ^(\w+):\s*(.*), matching to the end of the line
label_match(line) == line.dot = "" /\ line.label # ""

\* RV32Backend.is_translatable_line raises IndexError: ''.split()[0]
TranslatableRaises(line) == IsEmptyLine(line)

\* RV32Backend.is_translatable_line: the first token is ^[a-zA-Z]+(\.\w+)?$
is_translatable_line(line) ==
    /\ line.dot = "" /\ line.label = ""
    /\ line.words # <<>>
    /\ line.words[1].kind = "word"

\* a dict with key k set to v
Put(f, k, v) == [x \in DOMAIN f \cup {k} |-> IF x = k THEN v ELSE f[x]]

\* the texts of a sequence of tokens
Texts(ws) == [i \in 1 .. Len(ws) |-> ws[i].text]

\* cs begins with k
StartsWith(cs, k) == Len(k) <= Len(cs) /\ SubSeq(cs, 1, Len(k)) = k

\* dict(zip(macro_args, args)): the argument bound to a parameter, if any
ArgBound(margs, args, name) ==
    \E i \in 1 .. Len(margs) : i <= Len(args) /\ margs[i] = name

\* the last pair of zip(macro_args, args) with this parameter name wins
ArgValue(margs, args, name) ==
    LET i == CHOOSE j \in 1 .. Len(margs) :
                 /\ j <= Len(args) /\ margs[j] = name
                 /\ \A n \in 1 .. Len(margs) :
                        (n <= Len(args) /\ margs[n] = name) => n <= j
    IN  args[i]

\* every `\p` of a body line replaced by the argument bound to p
ReplaceWhole(line, margs, args) ==
    [line EXCEPT !.words =
        [i \in 1 .. Len(line.words) |->
            IF line.words[i].kind = "param"
               /\ ArgBound(margs, args, line.words[i].text)
            THEN ArgValue(margs, args, line.words[i].text)
            ELSE line.words[i]]]

\* the first key of arg_map, in the order of the dict, whose `\name` occurs
\* in the text `\p`: the position of its first pair in zip(macro_args,
\* args), 0 when there is none
FirstReplaced(margs, args, p) ==
    LET js == {j \in 1 .. Len(margs) :
                  j <= Len(args) /\ StartsWith(Chars[p], Chars[margs[j]])}
    IN  IF js = {} THEN 0 ELSE CHOOSE j \in js : \A n \in js : j <= n

\* `for arg_name, arg_value in arg_map.items(): macro_line =
\* macro_line.replace('\\' + arg_name, arg_value)` on the text `\p`: the
\* first key that matches takes the backslash with it, and what is left of
\* p stays behind the argument (the arguments of the lines modelled are
\* names and hold no backslash)
ReplaceParam(tok, margs, args) ==
    LET j == FirstReplaced(margs, args, tok.text)
    IN  IF j = 0 THEN tok
        ELSE LET v == ArgValue(margs, args, margs[j])
                 rest == SubSeq(Chars[tok.text], Len(Chars[margs[j]]) + 1,
                                Len(Chars[tok.text]))
             IN  IF rest = <<>> THEN v
                 ELSE Word(NameOf(Chars[v.text] \o rest))

\* the replacements of expand_macros on one line of the macro body
ReplaceArgs(line, margs, args) ==
    [line EXCEPT !.words =
        [i \in 1 .. Len(line.words) |->
            IF line.words[i].kind = "param"
            THEN ReplaceParam(line.words[i], margs, args)
            ELSE line.words[i]]]

\* an expansion that keeps only the first line of the macro body
expand_macros_FirstLine(line, ms) ==
    IF line.words = <<>> THEN <<line>>
    ELSE IF line.words[1].text \in DOMAIN ms /\ ms[line.words[1].text].lines # <<>>
    THEN <<ReplaceArgs(ms[line.words[1].text].lines[1],
                       ms[line.words[1].text].args, Tail(line.words))>>
    ELSE <<line>>

\* RV32Backend.expand_macros(line).split('\n')
expand_macros(line, ms) ==
    IF line.words = <<>> THEN <<line>>
    ELSE IF line.words[1].text \in DOMAIN ms
    THEN LET macro == ms[line.words[1].text]
         IN  IF macro.lines = <<>> THEN <<SrcLine("", "", <<>>)>>
             ELSE [i \in 1 .. Len(macro.lines) |->
                      ReplaceArgs(macro.lines[i], macro.args,
                                  Tail(line.words))]
    ELSE <<line>>

\* line[label_match.end():].strip() when the line has a label: the pattern
\* ends in (.*), so the match ends where the line ends and nothing is left
AfterLabel(line) ==
    IF label_match(line) THEN [line EXCEPT !.label = "", !.words = <<>>]
    ELSE line

\* the address a label gets, without the shift
LabelAddrNoShift(base, cnt) == base + cnt

\* self.base_addr + (translatable_line_cnt << 2)
LabelAddr(base, cnt) == base + cnt * 4

\* handle_directives raising for every directive it does not implement
EquRaisesOrUnknown(line) ==
    line.dot # "equ" \/ Len(line.words) # 2 \/ line.words[2].kind # "num"

\* handle_directives raises ParseException: .equ without exactly two
\* arguments, or with a value eval() cannot compute
EquRaises(line) ==
    line.dot = "equ" /\ (Len(line.words) # 2 \/ line.words[2].kind # "num")

\* str.lower() on the names the source lines use
Lower(t) == NameOf([i \in 1 .. Len(Chars[t]) |-> LowerChar(Chars[t][i])])

\* RV32Backend.handle_directives(directive_name, directive_args)
handle_directives(line, st) ==
    IF line.dot = "equ"
    THEN Put(st, Lower(line.words[1].text), line.words[2].num)
    ELSE st

\* the expanded lines emitted before the loop over them stops
RECURSIVE EmitPrefix(_)
EmitPrefix(ls) ==
    IF ls = <<>> THEN <<>>
    ELSE IF TranslatableRaises(ls[1]) \/ ~is_translatable_line(ls[1])
    THEN <<>>
    ELSE <<ls[1]>> \o EmitPrefix(Tail(ls))

-----------------------------------------------------------------------------
(* The assembler front end: Parser.interpret *)

\* dict_pat_reg "x": the canonical register names
x_regs ==
    [x0 |-> 0, x1 |-> 1, x2 |-> 2, x3 |-> 3, x4 |-> 4, x5 |-> 5, x6 |-> 6,
     x7 |-> 7, x8 |-> 8, x9 |-> 9, x10 |-> 10, x11 |-> 11, x12 |-> 12,
     x13 |-> 13, x14 |-> 14, x15 |-> 15, x16 |-> 16, x17 |-> 17, x18 |-> 18,
     x19 |-> 19, x20 |-> 20, x21 |-> 21, x22 |-> 22, x23 |-> 23, x24 |-> 24,
     x25 |-> 25, x26 |-> 26, x27 |-> 27, x28 |-> 28, x29 |-> 29, x30 |-> 30,
     x31 |-> 31]

\* asm.reg_info.is_reg
is_reg(tok) ==
    tok.kind = "reg" /\ tok.text \in DOMAIN x_regs \cup DOMAIN valid_regs

\* asm.reg_info.reg_map: the canonical register, kept as its index
asm_reg_map(tok) ==
    [kind |-> "xreg", text |-> "",
     num |-> IF tok.text \in DOMAIN x_regs THEN x_regs[tok.text]
             ELSE valid_regs[tok.text]]

\* _Parser.tokenize: every token lowercased
tokenize(line) ==
    [i \in 1 .. Len(line.words) |->
        [line.words[i] EXCEPT !.text = Lower(@)]]

\* st.items(): the keys of the symbol table in the order they were first
\* inserted, each with its current value
RECURSIVE st_items(_, _)
st_items(st, decl) ==
    IF decl = <<>> THEN <<>>
    ELSE LET n == Len(decl)
             before == st_items(st, SubSeq(decl, 1, n - 1))
         IN  IF \E j \in 1 .. n - 1 : decl[j].name = decl[n].name
             THEN before
             ELSE Append(before, <<decl[n].name, st[decl[n].name]>>)

\* `key in _tk`
RECURSIVE Contains(_, _)
Contains(cs, k) ==
    IF Len(cs) < Len(k) THEN FALSE
    ELSE StartsWith(cs, k) \/ Contains(Tail(cs), k)

\* _tk.replace(key, value): every occurrence, left to right
RECURSIVE ReplaceAll(_, _, _)
ReplaceAll(cs, k, v) ==
    IF Len(cs) < Len(k) THEN cs
    ELSE IF StartsWith(cs, k)
    THEN v \o ReplaceAll(SubSeq(cs, Len(k) + 1, Len(cs)), k, v)
    ELSE <<cs[1]>> \o ReplaceAll(Tail(cs), k, v)

\* str(value)
Str(n) ==
    LET ds == DecDigits(IF n < 0 THEN 0 - n ELSE n)
    IN  (IF n < 0 THEN <<"-">> ELSE <<>>)
        \o [i \in 1 .. Len(ds) |-> DigitChars[ds[i] + 1]]

\* a resolve_link_addr that replaces nothing
resolve_link_addr_None(cs, items) == cs

\* canonicalize.resolve_link_addr(_tk), over the items of st in their order
RECURSIVE resolve_link_addr(_, _)
resolve_link_addr(cs, items) ==
    IF items = <<>> THEN cs
    ELSE LET key == Chars[items[1][1]]
             value == Str(items[1][2])
         IN  resolve_link_addr(IF Contains(cs, key)
                               THEN ReplaceAll(cs, key, value) ELSE cs,
                               Tail(items))

\* the characters are a decimal number, as int() reads it
IsDecimal(cs) ==
    LET ds == IF cs # <<>> /\ cs[1] = "-" THEN Tail(cs) ELSE cs
    IN  ds # <<>> /\ \A i \in 1 .. Len(ds) :
                        \E d \in 1 .. 10 : DigitChars[d] = ds[i]

\* the digits a string of digit characters spells
DigitsOf(cs) ==
    [i \in 1 .. Len(cs) |-> (CHOOSE d \in 1 .. 10 : DigitChars[d] = cs[i]) - 1]

\* the token a resolved string of characters is: itself when nothing was
\* replaced, a number when only digits are left, else a string that is
\* neither a name of the lines modelled nor a number
Resolved(tok, cs) ==
    IF cs = Chars[tok.text] THEN tok
    ELSE IF IsDecimal(cs)
    THEN Num(IF cs[1] = "-" THEN 0 - DecValue(DigitsOf(Tail(cs)))
             ELSE DecValue(DigitsOf(cs)))
    ELSE [kind |-> "raw", text |-> "", num |-> 0]

\* _Parser.canonicalize: in every token after the opcode each symbol name is
\* replaced by its value wherever it occurs, then registers by their
\* canonical name; st is the items of the symbol table in their order
canonicalize(tokens, st) ==
    [i \in 1 .. Len(tokens) |->
        IF i = 1 THEN tokens[1]
        ELSE LET token == Resolved(tokens[i],
                              resolve_link_addr(Chars[tokens[i].text], st))
             IN  IF is_reg(token) THEN asm_reg_map(token) ELSE token]

\* the mnemonics rv32i.parse accepts
KnownOps == BranchNames \cup {"j", "jal", "jalr", "ret", "add", "sub",
                              "addi", "lui", "auipc", "nop", "mv", "li"}

\* rv32i.parse raises: unknown mnemonic, or an operand that is neither a
\* register nor a number
AnalyzeRaises(tokens) ==
    \/ tokens[1].text \notin KnownOps
    \/ \E i \in 2 .. Len(tokens) : tokens[i].kind \notin {"xreg", "num"}

\* the operands of a sequence of tokens of one kind
RECURSIVE NumsOf(_, _)
NumsOf(tokens, kind) ==
    IF tokens = <<>> THEN <<>>
    ELSE (IF tokens[1].kind = kind THEN <<tokens[1].num>> ELSE <<>>)
         \o NumsOf(Tail(tokens), kind)

\* _Parser.analyze: <<op, analyzed>>, analyzed holding .regs and .imm
analyze(tokens) ==
    <<tokens[1].text,
      [regs |-> NumsOf(Tail(tokens), "xreg"),
       imm |-> LET ns == NumsOf(Tail(tokens), "num")
               IN  IF ns = <<>> THEN <<>> ELSE <<ns[1]>>]>>

\* Parser.interpret raises on some line
InterpretRaises(code, st) ==
    \E i \in 1 .. Len(code) :
        AnalyzeRaises(canonicalize(tokenize(code[i]), st))

\* Parser.interpret(code, st, base)
interpret(code, st, base) ==
    AsmsOf(base, [i \in 1 .. Len(code) |->
                     analyze(canonicalize(tokenize(code[i]), st))])

-----------------------------------------------------------------------------
(* The assembler front end: the sources it is run on *)

MaxFragments == 3

Blank == SrcLine("", "", <<>>)
Nop == SrcLine("", "", <<Word("nop")>>)
IncBody == SrcLine("", "", <<Word("addi"), Param("r"), Param("r"), Num(1)>>)
MacroInc == SrcLine("macro", "", <<Word("inc"), Word("r")>>)
Endm == SrcLine("endm", "", <<>>)
CallInc == SrcLine("", "", <<Word("inc"), Reg("t1")>>)

\* the pieces a source text is put together from
Fragments ==
    { <<Blank>>,
      <<SrcLine("text", "", <<>>)>>,
      <<SrcLine("equ", "", <<Sym("K"), Num(5)>>)>>,
      <<SrcLine("", "a", <<>>)>>,
      <<SrcLine("", "b", <<Word("NOP")>>)>>,
      <<Nop>>,
      <<SrcLine("", "", <<Word("j"), Sym("a")>>)>>,
      <<SrcLine("", "", <<Word("addi"), Reg("t0"), Reg("x0"), Sym("k")>>)>>,
      <<CallInc>>,
      <<MacroInc>>,
      <<Endm>>,
      <<IncBody>>,
      <<MacroInc, IncBody, IncBody, Endm, CallInc>>,
      <<SrcLine("", "a", <<>>), Blank, SrcLine("text", "", <<>>),
        SrcLine("", "b", <<>>)>> }

RECURSIVE Concat(_)
Concat(fs) == IF fs = <<>> THEN <<>> ELSE fs[1] \o Concat(Tail(fs))

MacroM == SrcLine("macro", "", <<Word("m")>>)
CallM == SrcLine("", "", <<Word("m")>>)
MacroTwice == SrcLine("macro", "", <<Word("twice")>>)
CallTwice == SrcLine("", "", <<Word("twice")>>)
Label(n) == SrcLine("", n, <<>>)
LoadImm(rd, v) == SrcLine("", "", <<Word("li"), Reg(rd), Num(v)>>)
Jump(n) == SrcLine("", "", <<Word("j"), Sym(n)>>)
Macro2(p, q) == SrcLine("macro", "", <<Word("sum"), Word(p), Word(q)>>)
SumBody == SrcLine("", "", <<Word("add"), Param("r"), Param("rs"), Param("rs")>>)
CallSum(x, y) == SrcLine("", "", <<Word("sum"), Reg(x), Reg(y)>>)

\* whole programs: macros invoked at the start of a program, macro bodies
\* holding a label, a directive or an invocation, symbol names that occur
\* inside other operands, names written in capitals, and `li` with a value
\* inside and outside the signed 12-bit range (0x12345678, -5000, 5), and
\* directives the assembler does not implement (.macro without a name,
\* .globl, .text, .endm outside a macro), a macro with the parameters r
\* and rs, in both orders, a macro body that holds a label, a directive
\* and a .macro line, and a label referred to before and after its
\* declaration
Scenarios ==
    { <<Jump("lab"), Nop, Label("lab"), Nop, Jump("lab")>>,
      <<MacroM, Label("a"), SrcLine("equ", "", <<Sym("k"), Num(5)>>),
        MacroInc, Nop, Endm, Nop>>,
      <<Macro2("r", "rs"), SumBody, Endm, CallSum("t0", "t1")>>,
      <<Macro2("rs", "r"), SumBody, Endm, CallSum("t1", "t0")>>,
      <<SrcLine("macro", "", <<>>), Nop, Endm, Nop>>,
      <<Nop, SrcLine("globl", "", <<Word("m")>>), Label("a"),
        SrcLine("text", "", <<>>), Endm, Nop, Jump("a")>>,
      <<LoadImm("a0", 305419896), Label("lab"), Jump("lab")>>,
      <<Nop, LoadImm("t0", -5000), Label("b"), Nop>>,
      <<LoadImm("a0", 5), Label("lab"), Jump("lab")>> } \cup
    { <<MacroInc, IncBody, Endm, CallInc, CallInc>>,
      <<MacroM, SrcLine("", "lab", <<Word("nop")>>), Endm, CallM>>,
      <<MacroM, SrcLine("equ", "", <<Sym("k"), Num(5)>>), Nop, Endm, CallM>>,
      <<MacroInc, IncBody, Endm, MacroTwice, CallInc, CallInc, Endm,
        CallTwice>>,
      <<Label("a"),
        SrcLine("", "", <<Word("addi"), Reg("a0"), Reg("a0"), Num(1)>>)>>,
      <<Nop, Label("loop"), Nop, Label("loop2"), Jump("loop2")>>,
      <<Nop, Label("loop2"), Nop, Label("loop"), Jump("loop2")>>,
      <<Label("a"), Nop, Jump("a")>>,
      <<Nop, Label("Loop"), Nop, Jump("Loop")>>,
      <<Nop, Label("Loop"), Nop, Jump("loop")>>,
      <<Nop, Label("loop"), Nop, Jump("LOOP")>>,
      <<SrcLine("equ", "", <<Sym("K"), Num(5)>>),
        SrcLine("", "", <<Word("addi"), Reg("t0"), Reg("x0"), Sym("K")>>)>> }

Sources ==
    {Concat(fs) : fs \in UNION {[1 .. n -> Fragments] : n \in 1 .. MaxFragments}}
    \cup Scenarios

\* RV32Backend(lines, base_addr): __init__ up to the first line of preproc
InitAsm ==
    /\ base_addr \in BaseAddrs
    /\ lines \in Sources
    /\ asm_phase = "preproc"
    /\ AsmFresh
    /\ first = <<>>
    /\ program = EmptyMap
    /\ mmu_size = 0
    /\ CpuFresh
    /\ EncIdle

\* one iteration of the loop of RV32Backend.preproc
PreprocLine ==
    /\ asm_phase = "preproc"
    /\ loop.idx < Len(lines)
    /\ LET idx == loop.idx
           line == lines[idx + 1]
           next == [loop EXCEPT !.idx = idx + 1]
       IN  IF IsEmptyLine(line)
           THEN /\ loop' = next
                /\ UNCHANGED <<translatable_indices, mnemonics, symbol_table,
                               macros, asm_phase, declared>>
           ELSE IF ~loop.in_macro /\ macro_def_match(line)
           THEN /\ loop' = [next EXCEPT !.in_macro = TRUE,
                               !.macro_name = line.words[1].text,
                               !.macro_args = Texts(Tail(line.words)),
                               !.macro_lines = <<>>]
                /\ UNCHANGED <<translatable_indices, mnemonics, symbol_table,
                               macros, asm_phase, declared>>
           ELSE IF loop.in_macro /\ macro_end_match(line)
           THEN /\ macros' = Put(macros, loop.macro_name,
                                 [args |-> loop.macro_args,
                                  lines |-> loop.macro_lines])
                /\ loop' = [next EXCEPT !.in_macro = FALSE,
                               !.macro_name = "", !.macro_args = <<>>,
                               !.macro_lines = <<>>]
                /\ UNCHANGED <<translatable_indices, mnemonics, symbol_table,
                               asm_phase, declared>>
           ELSE IF loop.in_macro
           THEN /\ loop' = [next EXCEPT !.macro_lines = Append(@, line)]
                /\ UNCHANGED <<translatable_indices, mnemonics, symbol_table,
                               macros, asm_phase, declared>>
           ELSE IF directive_match(line)
           THEN IF EquRaises(line)
                THEN /\ asm_phase' = "failed"
                     /\ UNCHANGED <<translatable_indices, mnemonics,
                                    symbol_table, macros, loop, declared>>
                ELSE /\ symbol_table' = handle_directives(line, symbol_table)
                     /\ declared' =
                           IF line.dot = "equ"
                           THEN Append(declared,
                                   [kind |-> "equ",
                                    name |-> Lower(line.words[1].text),
                                    idx |-> idx, k |-> Len(mnemonics)])
                           ELSE declared
                     /\ loop' = next
                     /\ UNCHANGED <<translatable_indices, mnemonics, macros,
                                    asm_phase>>
           ELSE LET rest == AfterLabel(line)
                    expanded == expand_macros(rest, macros)
                    emitted == IF rest.words = <<>> THEN <<>>
                               ELSE EmitPrefix(expanded)
                    stops == rest.words # <<>> /\ Len(emitted) < Len(expanded)
                IN  /\ symbol_table' =
                          IF label_match(line)
                          THEN Put(symbol_table, line.label,
                                   LabelAddr(base_addr,
                                             loop.translatable_line_cnt))
                          ELSE symbol_table
                    /\ declared' =
                          IF label_match(line)
                          THEN Append(declared,
                                  [kind |-> "label", name |-> line.label,
                                   idx |-> idx, k |-> Len(mnemonics)])
                          ELSE declared
                    /\ mnemonics' = mnemonics \o emitted
                    /\ translatable_indices' = translatable_indices \o
                          [i \in 1 .. Len(emitted) |-> idx]
                    /\ loop' = [IF stops THEN loop ELSE next EXCEPT
                                   !.translatable_line_cnt = @ + Len(emitted)]
                    /\ asm_phase' = IF stops THEN "failed" ELSE asm_phase
                    /\ UNCHANGED macros
    /\ UNCHANGED <<lines, first, cpuVars, encVars>>

\* RV32IEmulator.load_programs: analyze_lines, then MMU.load_program
LoadPrograms ==
    /\ asm_phase = "preproc"
    /\ loop.idx = Len(lines)
    /\ IF InterpretRaises(mnemonics, st_items(symbol_table, declared))
          \/ mnemonics = <<>>
       THEN /\ asm_phase' = "failed"
            /\ UNCHANGED <<program, mmu_size>>
       ELSE LET asms == interpret(mnemonics,
                                  st_items(symbol_table, declared), base_addr)
            IN  /\ program' = load_program(asms)
                /\ mmu_size' = Cardinality(DOMAIN asms)
                /\ asm_phase' = "loaded"
    /\ UNCHANGED <<base_addr, vals, last_set, last_read, pc, pc_hi, cycle,
                   halted, phase, cur, raised, debugger_active, ret, encVars, lines,
                   translatable_indices, mnemonics, symbol_table, macros,
                   loop, declared, first>>

NextAsm == PreprocLine \/ LoadPrograms

SpecAsm == InitAsm /\ [][NextAsm]_vars

-----------------------------------------------------------------------------
(* Properties of the assembler front end, checked under SpecAsm *)

\* C2: when preprocessing yields N >= 1 translatable lines, the loaded image
\* holds exactly N instructions, keyed by exactly base_addr + 4 * i for
\* 0 <= i < N, the i-th translatable line at base_addr + 4 * i, and
\* MMU.size = N.
C2_Image ==
    asm_phase = "loaded" =>
        LET N == Len(mnemonics)
        IN  /\ N >= 1
            /\ DOMAIN program = {base_addr + 4 * i : i \in 0 .. N - 1}
            /\ Cardinality(DOMAIN program) = N
            /\ mmu_size = N
            /\ \A i \in 0 .. N - 1 :
                  /\ program[base_addr + 4 * i].addr = base_addr + 4 * i
                  /\ program[base_addr + 4 * i].name =
                        Lower(mnemonics[i + 1].words[1].text)

\* C2's case: a source with a macro, expanded twice over, and lines that
\* are not translatable has been loaded
C2_Witness ==
    /\ asm_phase = "loaded"
    /\ Len(mnemonics) >= 3
    /\ Len(lines) > Len(mnemonics)
    /\ "inc" \in DOMAIN macros

\* the i-th definition is the last one of its name
LastDefinition(i) ==
    \A j \in i + 1 .. Len(declared) : declared[j].name # declared[i].name

\* C3: a label declared after k mnemonics maps to base_addr + 4 * k, the
\* address of the next instruction emitted after it, whatever lies between
\* the two and however many instructions the earlier lines expanded to.
C3_Labels ==
    \A i \in 1 .. Len(declared) :
        (declared[i].kind = "label" /\ LastDefinition(i)) =>
            LET d == declared[i]
            IN  /\ symbol_table[d.name] = base_addr + 4 * d.k
                /\ \A j \in 1 .. Len(mnemonics) :
                      (j <= d.k) <=> (translatable_indices[j] < d.idx)
                /\ (asm_phase = "loaded" /\ d.k < Len(mnemonics)) =>
                      /\ symbol_table[d.name] \in DOMAIN program
                      /\ program[symbol_table[d.name]].name =
                            Lower(mnemonics[d.k + 1].words[1].text)
                      /\ translatable_indices[d.k + 1] >= d.idx

\* C3's case: a label declared after a macro invocation that expanded to two
\* instructions, with a blank line, a directive and another label before the
\* next instruction, has been loaded
C3_Witness ==
    /\ asm_phase = "loaded"
    /\ \E i \in 1 .. Len(declared) :
          /\ declared[i].kind = "label" /\ declared[i].name = "a"
          /\ declared[i].k = 2
          /\ Len(mnemonics) > 2
          /\ translatable_indices[3] > declared[i].idx + 2
          /\ symbol_table["a"] = base_addr + 8

\* the line the loop of preproc handles next
CurLine == lines[loop.idx + 1]

\* preproc is about to handle a line outside a macro definition
Handling ==
    asm_phase = "preproc" /\ loop.idx < Len(lines) /\ ~loop.in_macro

\* C13: for a source line `NAME: INSTR`, preproc records NAME in the symbol
\* table and also emits INSTR as a translatable mnemonic, at exactly the
\* address NAME maps to; the instruction after the label is not lost, and
\* the loaded image holds it at that address.
C13_LabelAndInstruction ==
    [][/\ (/\ Handling
           /\ label_match(CurLine)
           /\ CurLine.words # <<>>
           /\ CurLine.words[1].kind = "word"
           /\ CurLine.words[1].text \notin DOMAIN macros)
          => /\ asm_phase' = "preproc"
             /\ CurLine.label \in DOMAIN symbol_table'
             /\ mnemonics' = Append(mnemonics, SrcLine("", "", CurLine.words))
             /\ translatable_indices' = Append(translatable_indices, loop.idx)
             /\ loop'.translatable_line_cnt = loop.translatable_line_cnt + 1
             /\ symbol_table'[CurLine.label] =
                   base_addr + 4 * (Len(mnemonics') - 1)
       /\ asm_phase' = "loaded"
          => \A i \in 1 .. Len(declared) :
                LET d == declared[i]
                    words == lines[d.idx + 1].words
                IN  (/\ d.kind = "label" /\ LastDefinition(i)
                     /\ words # <<>>
                     /\ words[1].kind = "word"
                     /\ words[1].text \notin DOMAIN macros)
                    => /\ translatable_indices[d.k + 1] = d.idx
                       /\ symbol_table[d.name] \in DOMAIN program'
                       /\ program'[symbol_table[d.name]].name =
                             Lower(words[1].text)]_vars

\* the line preproc is about to handle belongs to a macro definition: its
\* .macro line, a line of its body, or its .endm line
Defining ==
    /\ asm_phase = "preproc" /\ loop.idx < Len(lines)
    /\ ~IsEmptyLine(CurLine)
    /\ loop.in_macro \/ macro_def_match(CurLine)

\* the line preproc is about to handle invokes a defined macro
Invoking ==
    /\ Handling
    /\ ~directive_match(CurLine)
    /\ CurLine.words # <<>>
    /\ CurLine.words[1].text \in DOMAIN macros

\* the body of the macro the current line invokes
Body == macros[CurLine.words[1].text].lines

\* the program that starts with a one-line macro and invokes it twice
TwoCalls == <<MacroInc, IncBody, Endm, CallInc, CallInc>>

C15_ExpandedLines ==
    [][Invoking =>
          /\ \A j \in 1 .. Len(Body) :
                /\ Body[j].label # "" => Body[j].label \in DOMAIN symbol_table'
                /\ (Body[j].dot = "equ" /\ ~EquRaises(Body[j]))
                   => Lower(Body[j].words[1].text) \in DOMAIN symbol_table'
          /\ \A i \in Len(mnemonics) + 1 .. Len(mnemonics') :
                mnemonics'[i].words[1].text \notin DOMAIN macros]_vars

\* preproc has gone through every line and Parser.interpret has been called
Interpreted == asm_phase \in {"loaded", "failed"} /\ loop.idx = Len(lines)

\* the tokens Parser.interpret canonicalizes for the i-th mnemonic
Canonical(i) ==
    canonicalize(tokenize(mnemonics[i]), st_items(symbol_table, declared))

\* an operand resolved as a whole token: the value of the symbol it names,
\* the canonical register it names, or itself
ResolveWhole(tok, st) ==
    IF tok.text \in DOMAIN st THEN Num(st[tok.text])
    ELSE IF is_reg(tok) THEN asm_reg_map(tok)
    ELSE tok

\* some symbol name occurs inside the operand without being all of it
Overlapped(tok) ==
    \E n \in DOMAIN symbol_table :
        n # tok.text /\ Contains(Chars[tok.text], Chars[n])

\* C16: symbol resolution in operands is whole-token: a symbol name is
\* replaced by its value only where it is the complete identifier, never
\* inside a longer one, so every operand resolves to the value of exactly
\* the identifier written, whatever the order of the symbol table.
C16_WholeToken ==
    Interpreted =>
        \A i \in 1 .. Len(mnemonics) :
            LET toks == tokenize(mnemonics[i])
            IN  Canonical(i) =
                    [j \in 1 .. Len(toks) |->
                        IF j = 1 THEN toks[1]
                        ELSE ResolveWhole(toks[j], symbol_table)]

\* the same for the mnemonics none of whose operands has a symbol name
\* strictly inside it
C16_WholeTokenNoOverlap ==
    Interpreted =>
        \A i \in 1 .. Len(mnemonics) :
            LET toks == tokenize(mnemonics[i])
            IN  (\A j \in 2 .. Len(toks) : ~Overlapped(toks[j]))
                => Canonical(i) =
                      [j \in 1 .. Len(toks) |->
                          IF j = 1 THEN toks[1]
                          ELSE ResolveWhole(toks[j], symbol_table)]

\* C17: symbol names are case-insensitive: every label and every .equ
\* constant is stored under its lowercased name, so a reference written in
\* any letter case to a declared name resolves to its value.
C17_CaseInsensitive ==
    /\ \A d \in 1 .. Len(declared) :
          Lower(declared[d].name) \in DOMAIN symbol_table
    /\ Interpreted =>
          \A i \in 1 .. Len(mnemonics) :
              \A j \in 2 .. Len(mnemonics[i].words) :
                  LET w == mnemonics[i].words[j]
                  IN  (/\ w.kind = "sym"
                       /\ \E d \in 1 .. Len(declared) :
                             Lower(declared[d].name) = Lower(w.text))
                      => Canonical(i)[j].kind = "num"

\* the same for .equ constants and for labels declared in lowercase
C17_LowercaseDeclared ==
    /\ \A d \in 1 .. Len(declared) :
          (declared[d].name = Lower(declared[d].name))
          => Lower(declared[d].name) \in DOMAIN symbol_table
    /\ Interpreted =>
          \A i \in 1 .. Len(mnemonics) :
              \A j \in 2 .. Len(mnemonics[i].words) :
                  LET w == mnemonics[i].words[j]
                  IN  (/\ w.kind = "sym"
                       /\ ~Overlapped([w EXCEPT !.text = Lower(@)])
                       /\ \E d \in 1 .. Len(declared) :
                             declared[d].name = Lower(w.text))
                      => Canonical(i)[j].kind = "num"

-----------------------------------------------------------------------------
(* Properties of the debugger trap and of the run loop, checked under     *)
(* SpecCpu                                                                *)

\* CPU.step is executing ebreak or sbreak
AtBreak == phase = "exec" /\ cur.name \in {"ebreak", "sbreak"}

\* C25: when ebreak (or sbreak) executes while no debugger is attached the
\* CPU halts: halted becomes true and no further instruction is executed;
\* only with a debugger attached is the trap non-fatal (Running ->
\* DebugPaused, and DebugPaused -> Running on resume).
C25_EbreakHalts ==
    [][(AtBreak /\ ~debugger_active)
       => (halted' /\ phase' \in {"fetch", "exited"})]_vars

\* what the code does with the trap: halted keeps its value, and with the
\* debugger attached the CPU pauses in the console
C25_TrapKeepsHalted ==
    [][AtBreak => /\ halted' = halted
                  /\ debugger_active => phase' = "debug"]_vars

\* the loop of CPU.run is at its top, or has been left
AtLoopTop == phase \in {"fetch", "exited"}

CallReturnRuns ==
    /\ program = Loaded(base_addr, CallReturn(base_addr))
    /\ phase # "idle"

\* C27: end-to-end call and return: running the program `jal ra, f; ebreak;
\* f: addi a0, zero, 7; jalr zero, ra, 0` from base executes jal, addi, jalr
\* and then the ebreak at base+4, in that order; when the ebreak trap is
\* raised a0 == 7 and ra == base+4, and the CPU has not halted on an error
\* before reaching it.
C27_CallReturn ==
    CallReturnRuns =>
        /\ cycle \in 1 .. 4 =>
              /\ cur.name = <<"jal", "addi", "jalr", "ebreak">>[cycle]
              /\ cur.addr = base_addr + <<0, 8, 12, 4>>[cycle]
        /\ cur.name # "ebreak" => raised = "none"
        /\ raised = "LaunchDebuggerException" =>
              /\ RegGet(Machine, valid_regs["a0"]) = 7
              /\ RegGet(Machine, valid_regs["ra"]) = base_addr + 4

-----------------------------------------------------------------------------
(* Properties of the pseudo-instruction li, checked under SpecAsm *)

\* the i-th mnemonic is `li rd, v` with v outside the signed 12-bit range
WideLi(i) ==
    /\ Lower(mnemonics[i].words[1].text) = "li"
    /\ Len(mnemonics[i].words) = 3
    /\ mnemonics[i].words[3].kind = "num"
    /\ mnemonics[i].words[3].num \notin -2048 .. 2047

\* the split of v the pair `lui rd, hi; addi rd, rd, lo` rebuilds v from:
\* lo is the signed low 12 bits
LiLo(v) == ((v + 2048) % 4096) - 2048
LiHi(v) == ((v - LiLo(v)) \div 4096) % 1048576

\* C28: assembling `li rd, v` with v outside the signed 12-bit range emits
\* exactly two instructions at consecutive addresses, `lui rd, hi` then
\* `addi rd, rd, lo` (for v = 0x12345678: lui a0, 0x12345 then addi a0, a0,
\* 0x678); the program image and the addresses of later labels account for
\* both words, and executing the pair leaves rd == v.
C28_LiExpands ==
    (asm_phase = "loaded" /\ \E i \in 1 .. Len(mnemonics) : WideLi(i)) =>
        /\ mmu_size = Len(mnemonics)
                      + Cardinality({i \in 1 .. Len(mnemonics) : WideLi(i)})
        /\ \A i \in 1 .. Len(mnemonics) :
              WideLi(i) =>
                 LET rd == valid_regs[Lower(mnemonics[i].words[2].text)]
                     v  == mnemonics[i].words[3].num
                 IN  \E a \in DOMAIN program :
                        /\ a + 4 \in DOMAIN program
                        /\ program[a].name = "lui"
                        /\ program[a].regs = <<rd>>
                        /\ program[a].imm = <<LiHi(v)>>
                        /\ program[a + 4].name = "addi"
                        /\ program[a + 4].regs = <<rd, rd>>
                        /\ program[a + 4].imm = <<LiLo(v)>>
        /\ \A d \in 1 .. Len(declared) :
              declared[d].kind = "label" =>
                 \E a \in DOMAIN program \cup {base_addr + 4 * mmu_size} :
                    symbol_table[Lower(declared[d].name)] = a

\* what the code does with `li`: one instruction per line, the mnemonic kept
C28_LiKept ==
    asm_phase = "loaded" =>
        /\ mmu_size = Len(mnemonics)
        /\ \A i \in 1 .. Len(mnemonics) :
              WideLi(i) => program[AddrOf(base_addr, i)].name = "li"

\* `li a0, 0x12345678` has been assembled and loaded
C28_Loaded ==
    /\ asm_phase = "loaded"
    /\ base_addr = BASE_ADDR
    /\ WideLi(1) /\ mnemonics[1].words[3].num = 305419896
    /\ program[base_addr].regs = <<10>>
    /\ program[base_addr].imm = <<305419896>>
    /\ symbol_table["lab"] = base_addr + 4

-----------------------------------------------------------------------------
(* Properties of the host's use of the register file, checked under       *)
(* SpecCpu                                                                *)

\* CPU.launch is called
Launching == phase = "idle" /\ phase' = "fetch"

\* C29: register values written with set_by_name before launch() are the
\* values the program observes when its first instruction executes:
\* launch() starts at PC = base_addr and does not modify any pre-set
\* register (including a0).
C29_LaunchKeepsRegisters ==
    [][Launching => /\ pc' = base_addr /\ pc_hi' = 0
                    /\ \A name \in DOMAIN valid_regs :
                          RegGet(Machine', valid_regs[name])
                              = RegGet(Machine, valid_regs[name])]_vars

\* what the code does: launch() starts at PC = base_addr, writes the hart id
\* 0 to a0 and keeps every other register
C29_LaunchSetsA0 ==
    [][Launching => /\ pc' = base_addr /\ pc_hi' = 0
                    /\ RegGet(Machine', valid_regs["a0"]) = 0
                    /\ \A name \in DOMAIN valid_regs \ {"a0"} :
                          RegGet(Machine', valid_regs[name])
                              = RegGet(Machine, valid_regs[name])]_vars

-----------------------------------------------------------------------------
(* The register file called by name: Registers of emu/registers.py, which *)
(* CPU.__init__ constructs, and RF of emu/rf.py, which the package emu     *)
(* exports                                                                *)

RegFileClasses == {"Registers", "RF"}

RfNames == {"zero", "t0", "fp", "s0", "foo", "x8"}
RfRegs == {0, 8}
RfVals == {-1, 1}

\* Registers.set / RF.set: the value it returns
SetReturns(reg) == reg # 0

\* set_by_name(reg, val) of both classes
set_by_name(name, val) ==
    /\ phase = "idle"
    /\ IF ~is_reg_valid(name)
       THEN /\ raised' = "InvalidRegisterException"
            /\ ret' = <<>>
            /\ UNCHANGED <<vals, last_set, last_read, pc, pc_hi>>
       ELSE /\ Apply(RegSet(Machine, valid_regs[name], val))
            /\ raised' = "none"
            /\ ret' = <<SetReturns(valid_regs[name])>>
    /\ UNCHANGED <<base_addr, program, mmu_size, cycle, halted, phase, cur,
                   debugger_active>>
    /\ UNCHANGED <<encVars, asmVars>>

\* what get_by_name raises for a name that is not a key of valid_regs:
\* Registers.get_by_name looks the name up at once, RF.get_by_name tests
\* is_reg_name_valid first
GetByNameRaises(cls) ==
    IF cls = "Registers" THEN "KeyError" ELSE "InvalidRegisterException"

\* get_by_name(reg) of class cls
get_by_name(cls, name) ==
    /\ phase = "idle"
    /\ IF ~is_reg_valid(name)
       THEN /\ raised' = GetByNameRaises(cls)
            /\ ret' = <<>>
            /\ UNCHANGED <<vals, last_set, last_read, pc, pc_hi>>
       ELSE /\ Apply(MarkRead(Machine, valid_regs[name]))
            /\ raised' = "none"
            /\ ret' = <<RegGet(Machine, valid_regs[name])>>
    /\ UNCHANGED <<base_addr, program, mmu_size, cycle, halted, phase, cur,
                   debugger_active>>
    /\ UNCHANGED <<encVars, asmVars>>

\* get(reg) of both classes
get(reg) ==
    /\ phase = "idle"
    /\ Apply(MarkRead(Machine, reg))
    /\ raised' = "none"
    /\ ret' = <<RegGet(Machine, reg)>>
    /\ UNCHANGED <<base_addr, program, mmu_size, cycle, halted, phase, cur,
                   debugger_active>>
    /\ UNCHANGED <<encVars, asmVars>>

InitRf == CpuIdle /\ EncIdle /\ AsmIdle

NextRf ==
    \/ \E name \in RfNames, val \in RfVals : set_by_name(name, val)
    \/ \E cls \in RegFileClasses, name \in RfNames : get_by_name(cls, name)
    \/ \E reg \in RfRegs : get(reg)

SpecRf == InitRf /\ [][NextRf]_vars

-----------------------------------------------------------------------------
(* Properties of the register file called by name, checked under SpecRf *)

\* C30: set_by_name and get_by_name called with a name that is not a known
\* ABI name raise InvalidRegister and leave the register file unchanged;
\* called with a known name they act on the same entry as the name's index,
\* so a value written through `fp` is read back through `s0` and through
\* index 8.
C30_ByName ==
    [][/\ raised' # "none" =>
             /\ raised' = "InvalidRegisterException"
             /\ UNCHANGED <<vals, last_set, last_read>>
       /\ (raised' = "none" /\ last_set' = <<valid_regs["fp"]>>) =>
             /\ RegGet(Machine', valid_regs["s0"])
                   = RegGet(Machine', valid_regs["fp"])
             /\ RegGet(Machine', 8) = RegGet(Machine', valid_regs["fp"])
       /\ (raised' = "none" /\ ret' # <<>> /\ last_read' = <<8>>
           /\ last_read # last_read') =>
             ret' = <<vals[8]>>]_vars

\* the same, with the KeyError of Registers.get_by_name allowed for
C30_ByNameOrKeyError ==
    [][/\ raised' # "none" =>
             /\ raised' \in {"InvalidRegisterException", "KeyError"}
             /\ UNCHANGED <<vals, last_set, last_read>>
       /\ (raised' = "none" /\ last_set' = <<valid_regs["fp"]>>) =>
             /\ RegGet(Machine', valid_regs["s0"])
                   = RegGet(Machine', valid_regs["fp"])
             /\ RegGet(Machine', 8) = RegGet(Machine', valid_regs["fp"])
       /\ (raised' = "none" /\ ret' # <<>> /\ last_read' = <<8>>
           /\ last_read # last_read') =>
             ret' = <<vals[8]>>]_vars

-----------------------------------------------------------------------------
(* Properties of branches by one instruction, checked under SpecCpu *)

\* CPU.step is executing a branch whose condition holds and whose
\* pcrel_value is d
TakenBy(d) ==
    /\ phase = "exec" /\ cur.name \in BranchNames /\ ~GetImmRaises(cur)
    /\ Taken(cur.name, vals[get_reg(cur, 0)], vals[get_reg(cur, 1)])
    /\ pcrel_value(cur) = d

\* C31: a taken branch whose offset is -4 leaves PC at the branch's own
\* address, so the branch is executed again; a taken branch whose offset is
\* +4 leaves PC at the instruction following the branch, the same PC as when
\* the branch is not taken.
C31_BranchByOne ==
    [][/\ TakenBy(-4) => <<pc_hi', pc'>> = <<0, cur.addr>>
       /\ TakenBy(4) => <<pc_hi', pc'>> = <<0, cur.addr + 4>>]_vars

\* what the code does: an offset of -4 leaves PC at the instruction before
\* the branch, an offset of +4 at the instruction after it
C31_BranchByOneBack ==
    [][/\ TakenBy(-4) => <<pc_hi', pc'>> = AddWide(0, cur.addr, -4)
       /\ TakenBy(4) => <<pc_hi', pc'>> = <<0, cur.addr + 4>>]_vars

\* a branch by -4 has been taken: the loop is at the instruction before it
C31_TakenBack == phase = "fetch" /\ cycle = 2 /\ cur.name \in BranchNames
                 /\ pcrel_value(cur) = -4 /\ pc = cur.addr - 4 /\ ~halted

-----------------------------------------------------------------------------
(* Properties of directives and macro definitions, checked under SpecAsm *)

\* the line is a directive preproc does not act on: not .equ, not the
\* .macro NAME that opens a definition, not the .endm that closes one
Unhandled(line) ==
    /\ directive_match(line)
    /\ line.dot # "equ"
    /\ ~(~loop.in_macro /\ macro_def_match(line))
    /\ ~(loop.in_macro /\ macro_end_match(line))

\* C32: a line starting with '.' whose directive is not handled (any
\* directive other than .equ and a well-formed .macro/.endm pair, including
\* a stray .endm outside a macro) raises no error and leaves the symbol
\* table, the macro dictionary, the mnemonic list and the translatable count
\* unchanged; processing continues with the next line.
C32_UnhandledDirective ==
    [][(Handling /\ Unhandled(CurLine)) =>
          /\ asm_phase' = "preproc"
          /\ loop'.idx = loop.idx + 1
          /\ loop'.translatable_line_cnt = loop.translatable_line_cnt
          /\ UNCHANGED <<symbol_table, macros, mnemonics,
                         translatable_indices>>]_vars

\* C32's case: a stray .endm has been passed over after an instruction was
\* emitted and a label declared, and another line is still to come
C32_Witness ==
    /\ asm_phase = "preproc"
    /\ loop.idx \in 1 .. Len(lines) - 1
    /\ lines[loop.idx].dot = "endm"
    /\ ~loop.in_macro /\ macros = EmptyMap
    /\ mnemonics # <<>> /\ DOMAIN symbol_table # {}

-----------------------------------------------------------------------------
(* Preprocessing the mnemonics of a preprocessed source *)

\* the sources preprocessed twice
RerunSources ==
    {Concat(fs) : fs \in UNION {[1 .. n -> Fragments] : n \in 1 .. 2}}
    \cup Scenarios

InitRerun ==
    /\ base_addr \in BaseAddrs
    /\ lines \in RerunSources
    /\ asm_phase = "preproc"
    /\ AsmFresh
    /\ first = <<>>
    /\ program = EmptyMap
    /\ mmu_size = 0
    /\ CpuFresh
    /\ EncIdle

\* RV32Backend('\n'.join(backend.mnemonics), backend.base_addr), once the
\* preproc of `backend` has returned: AsmBackend.__init__, then preproc
Rerun ==
    /\ asm_phase = "preproc"
    /\ loop.idx = Len(lines)
    /\ first = <<>>
    /\ first' = <<[mnemonics |-> mnemonics, symbol_table |-> symbol_table]>>
    /\ lines' = mnemonics
    /\ translatable_indices' = <<>>
    /\ mnemonics' = <<>>
    /\ symbol_table' = EmptyMap
    /\ macros' = EmptyMap
    /\ loop' = LoopStart
    /\ declared' = <<>>
    /\ UNCHANGED <<asm_phase, cpuVars, encVars>>

NextRerun == PreprocLine \/ Rerun

SpecRerun == InitRerun /\ [][NextRerun]_vars

\* the second preproc has returned
Reprocessed ==
    asm_phase = "preproc" /\ first # <<>> /\ loop.idx = Len(lines)

\* C33: preprocessing is idempotent: running the preprocessor (same
\* base_addr) on the mnemonic lines produced by a first run yields the same
\* mnemonic sequence and the same symbol table as the first run, for every
\* source program, including programs with labels, .equ constants and
\* macros.
C33_Idempotent ==
    Reprocessed => /\ mnemonics = first[1].mnemonics
                   /\ symbol_table = first[1].symbol_table

\* what the code does: the mnemonics are the same, the symbol table of the
\* second run is empty
C33_MnemonicsOnly ==
    Reprocessed => mnemonics = first[1].mnemonics /\ symbol_table = EmptyMap

-----------------------------------------------------------------------------
(* Properties of the .bin output, checked under SpecEnc *)

\* C34: for every encoded 32-bit word, the .bin output contains its 4 bytes
\* least-significant byte first (little-endian), one word after another in
\* instruction order; this is the same byte order as the byte list printed
\* by -show-encoding for that instruction.
C34_LittleEndian ==
    bin_file # <<>> =>
        bin_file = encoding_bytes(apply_hex(enc_out.bin))
                   \o encoding_bytes(apply_hex(NopWord))

\* what the code writes: the words in instruction order, each with its most
\* significant byte first
C34_BigEndian ==
    bin_file # <<>> =>
        /\ Len(bin_file) = 8
        /\ \A n \in 1 .. 4 :
              /\ bin_file[n] = encoding_bytes(apply_hex(enc_out.bin))[5 - n]
              /\ bin_file[4 + n] = encoding_bytes(apply_hex(NopWord))[5 - n]

-----------------------------------------------------------------------------
(* MMU.is_valid_addr, run on its own as SpecMmu *)

\* UInt32.__lt__: `<` on the unsigned values
ULt32(a, b) == ULess(unsigned_value(a), unsigned_value(b))

\* UInt32.__rshift__ by 2: a logical shift of the unsigned value
Shr2(a) ==
    IF a >= 0 THEN a \div 4
    ELSE ((a + 2147483647) + 1) \div 4 + 536870912

\* `addr - self.base >> 2 >= self.size` read as addr - (self.base >> 2)
is_valid_addr_ShiftFirst(base, size, addr) ==
    /\ ~ULt32(addr, base)
    /\ ULt32(Sub32(addr, Shr2(base)), size)
    /\ addr % 4 = 0

\* MMU.is_valid_addr(addr): Python reads `addr - self.base >> 2 >= self.size`
\* as ((addr - self.base) >> 2) >= self.size
is_valid_addr(base, size, addr) ==
    IF ULt32(addr, base) THEN FALSE
    ELSE IF Shr2(Sub32(addr, base)) >= size THEN FALSE
    ELSE IF addr % 4 # 0 THEN FALSE
    ELSE TRUE

\* the bases and the sizes the MMU is created and loaded with
MmuBases == {0, BASE_ADDR, 2147483632}
MmuSizes == 0 .. 3

\* the addresses is_valid_addr is asked about: around both ends of the image
\* and at the ends of the 32-bit range
MmuAddrs(base, size) ==
    {Add32(base, d) : d \in {-4, 0, 1, 2, 4}}
    \cup {Add32(base, 4 * size + d) : d \in {-4, -1, 0, 4}}
    \cup {0, 2147483644, -2147483647 - 1, -4}

\* MMU.__init__ and load_program of `size` nops at base
InitMmu ==
    /\ base_addr \in MmuBases
    /\ \E size \in MmuSizes :
          /\ program = Loaded(base_addr, [i \in 1 .. size |-> <<"nop", <<>>, <<>>>>])
          /\ mmu_size = size
    /\ CpuFresh
    /\ EncIdle
    /\ AsmIdle

\* a call of is_valid_addr(addr), as MMU.dump makes it: ret is <<addr, result>>
IsValidAddr(addr) ==
    /\ ret' = <<addr, is_valid_addr(base_addr, mmu_size, addr)>>
    /\ UNCHANGED <<base_addr, program, mmu_size, vals, last_set, last_read,
                   pc, pc_hi, cycle, halted, phase, cur, raised,
                   debugger_active>>
    /\ UNCHANGED <<encVars, asmVars>>

NextMmu == \E addr \in MmuAddrs(base_addr, mmu_size) : IsValidAddr(addr)

SpecMmu == InitMmu /\ [][NextMmu]_vars

\* `<` on two Python ints <<hi, lo>>
WideLess(u, v) == u[1] < v[1] \/ (u[1] = v[1] /\ u[2] < v[2])

\* base <= a < base + 4 * size on the unsigned values, and a mod 4 = 0
InImage(base, size, a) ==
    LET b == UnsignedWide(base)
    IN  /\ ~WideLess(UnsignedWide(a), b)
        /\ WideLess(UnsignedWide(a), AddWide(b[1], b[2], 4 * size))
        /\ a % 4 = 0

\* C35: is_valid_addr(a) returns true exactly when base <= a < base + 4*size
\* and a mod 4 = 0: the unparenthesised test `addr - self.base >> 2 >=
\* self.size` rejects exactly the addresses with (a - base) / 4 >= size.
C35_ValidAddr ==
    ret # <<>> => (ret[2] <=> InImage(base_addr, mmu_size, ret[1]))

\* is_valid_addr has accepted the last address of an image of three
\* instructions loaded at BASE_ADDR
C35_Witness ==
    /\ ret # <<>> /\ mmu_size = 3
    /\ ret[1] = base_addr + 8 /\ ret[2] = TRUE /\ base_addr = BASE_ADDR

-----------------------------------------------------------------------------
(* Properties of the parameter replacement of macros, checked under SpecAsm *)

\* the parameters and the arguments of the invocation preproc is about to
\* handle
CallParams == macros[CurLine.words[1].text].args
CallArgs == Tail(CurLine.words)

\* the invocation emits the lines of Body with every parameter replaced as
\* a whole
EmitsWhole ==
    \A j \in 1 .. Len(Body) :
        /\ Len(mnemonics') >= Len(mnemonics) + j
        /\ mnemonics'[Len(mnemonics) + j] =
              ReplaceWhole(Body[j], CallParams, CallArgs)

\* C36: expand_macros replaces every occurrence of `\p` in each body line by
\* the call-site argument bound to parameter p, for every parameter of the
\* macro and independent of the order of the parameter list, also when one
\* parameter name is a prefix of another (parameters r and rs: `\rs` is
\* replaced by the argument of rs, not by the argument of r followed by 's').
C36_EveryParameter ==
    [][(Invoking /\ \A j \in 1 .. Len(Body) : is_translatable_line(Body[j]))
          => EmitsWhole]_vars

\* a parameter listed before p whose name is the beginning of p's name
PrefixBefore(margs, p) ==
    \E i, j \in 1 .. Len(margs) :
        /\ i < j /\ margs[j] = p /\ margs[i] # p
        /\ StartsWith(Chars[p], Chars[margs[i]])

\* the same for the invocations where no `\p` of the body has a parameter
\* listed before p whose name begins p's name
C36_NoPrefixBefore ==
    [][(/\ Invoking
        /\ \A j \in 1 .. Len(Body) :
              /\ is_translatable_line(Body[j])
              /\ \A i \in 1 .. Len(Body[j].words) :
                    Body[j].words[i].kind = "param"
                    => /\ ArgBound(CallParams, CallArgs, Body[j].words[i].text)
                       /\ ~PrefixBefore(CallParams, Body[j].words[i].text))
          => EmitsWhole]_vars

\* the macro with the parameters rs, r has been invoked and has emitted
\* `add t0, t1, t1`
C36_RsFirst ==
    /\ lines = <<Macro2("rs", "r"), SumBody, Endm, CallSum("t1", "t0")>>
    /\ mnemonics = <<SrcLine("", "", <<Word("add"), Reg("t0"), Reg("t1"),
                                       Reg("t1")>>)>>

-----------------------------------------------------------------------------
(* Properties of jalr with rd = rs1, checked under SpecCpu *)

\* the handler of a jalr whose rd and rs1 are the same register, not x0, is
\* about to run
JalrSame ==
    /\ phase = "exec" /\ cur.name = "jalr" /\ ~GetImmRaises(cur)
    /\ Len(cur.regs) = 2
    /\ get_reg(cur, 0) = get_reg(cur, 1) /\ get_reg(cur, 0) # 0

\* C37: jalr reads rs1 before it writes rd: when rd and rs1 are the same
\* register, the jump target is computed from the value rs1 held before the
\* instruction, and afterwards the register holds the return address a + 4.
C37_JalrReadsFirst ==
    [][JalrSame =>
          LET u == UnsignedWide(vals[get_reg(cur, 1)])
          IN  /\ vals'[get_reg(cur, 0)] = cur.addr + 4
              /\ <<pc_hi', pc'>> = AddWide(u[1], u[2], abs_value(cur))]_vars

\* what the code does: the register holds a + 4 afterwards, and the target
\* is computed from that new value
C37_JalrWritesFirst ==
    [][JalrSame =>
          /\ vals'[get_reg(cur, 0)] = cur.addr + 4
          /\ <<pc_hi', pc'>> = AddWide(0, cur.addr + 4, abs_value(cur))]_vars

\* such a jalr has run
C37_JalrSameRan ==
    /\ phase = "fetch" /\ cur.name = "jalr" /\ cur.regs = <<1, 1>>
    /\ vals[1] = cur.addr + 4 /\ pc = cur.addr + 8

-----------------------------------------------------------------------------
(* Properties of the debugger session, checked under SpecCpu *)

\* this step raises a LaunchDebuggerException while a session is active
LaunchWhileActive ==
    /\ debugger_active
    /\ raised' = "LaunchDebuggerException"
    /\ phase = "exec" \/ cycle' # cycle

\* no session is open any more: the emulator has run to its end or was left
\* by an exception
SessionOver == phase \in {"exited", "crashed"}

\* C38: at most one debugger session is active at any time: a LaunchDebugger
\* raised while debugger_active is true never opens a nested session (it is
\* re-raised to the active session, which returns to its prompt), and
\* debugger_active is false again whenever a session has ended, however it
\* ended.
C38_OneSession ==
    [][/\ LaunchWhileActive => (debugger_active' /\ phase' = "debug")
       /\ SessionOver' => ~debugger_active']_vars

\* the same with the prompt returned to by the session's `cont` only; the
\* session's `step` ends the session and the emulator
C38_ContReturns ==
    [][/\ (LaunchWhileActive /\ phase = "exec")
             => (debugger_active' /\ phase' = "debug")
       /\ (LaunchWhileActive /\ phase = "debug")
             => (~debugger_active' /\ phase' = "exited")
       /\ SessionOver' => ~debugger_active']_vars

\* the session's `cont` has run into a second ebreak and the console prompts
\* again
C38_ContAtBreak ==
    /\ phase = "debug" /\ debugger_active /\ cycle = 2
    /\ raised = "LaunchDebuggerException"
    /\ cur.name = "ebreak" /\ cur.addr = base_addr + 4

-----------------------------------------------------------------------------
(* Properties of the lines inside a macro definition, checked under SpecAsm *)

\* preproc is about to handle a non-empty line inside a macro definition
InsideMacro ==
    /\ asm_phase = "preproc" /\ loop.idx < Len(lines)
    /\ loop.in_macro
    /\ ~IsEmptyLine(CurLine)

\* C39: while the preprocessor is inside a macro definition (after a .macro
\* line and before the next .endm), every non-empty line (labels,
\* directives, instructions and further .macro lines alike) is only appended
\* to the macro body: the symbol table, the mnemonic list,
\* translatable_indices and the translatable count do not change, and the
\* macro is entered into the macro dictionary only when .endm is processed.
C39_InsideMacro ==
    [][/\ InsideMacro =>
             /\ symbol_table' = symbol_table
             /\ mnemonics' = mnemonics
             /\ translatable_indices' = translatable_indices
             /\ loop'.translatable_line_cnt = loop.translatable_line_cnt
             /\ asm_phase' = "preproc"
             /\ IF CurLine.dot = "endm"
                THEN /\ ~loop'.in_macro
                     /\ macros' = Put(macros, loop.macro_name,
                                      [args |-> loop.macro_args,
                                       lines |-> loop.macro_lines])
                ELSE /\ loop'.in_macro
                     /\ loop'.macro_name = loop.macro_name
                     /\ loop'.macro_lines = Append(loop.macro_lines, CurLine)
                     /\ macros' = macros
       /\ (macros' # macros) => (InsideMacro /\ CurLine.dot = "endm")]_vars

\* a macro whose body holds a label, a directive, a .macro line and an
\* instruction has been entered into the dictionary, and nothing else has
\* been recorded
C39_Witness ==
    /\ asm_phase = "preproc" /\ loop.idx = 6 /\ ~loop.in_macro
    /\ macros = Put(EmptyMap, "m",
                    [args |-> <<>>,
                     lines |-> <<Label("a"),
                                 SrcLine("equ", "", <<Sym("k"), Num(5)>>),
                                 MacroInc, Nop>>])
    /\ symbol_table = EmptyMap
    /\ mnemonics = <<>>
    /\ translatable_indices = <<>>

-----------------------------------------------------------------------------
(* Properties of the two passes of the assembler, checked under SpecAsm *)

\* preproc has handled every line; analysis and loading come next
PreprocDone == asm_phase = "preproc" /\ loop.idx = Len(lines)

\* operand j of mnemonic i, as tokenize hands it on, names as a whole the
\* label whose last declaration is declared[d], and no other symbol name
\* lies inside it
RefersTo(i, j, d) ==
    /\ declared[d].kind = "label" /\ LastDefinition(d)
    /\ mnemonics[i].words[j].kind = "sym"
    /\ tokenize(mnemonics[i])[j].text = declared[d].name
    /\ ~Overlapped(tokenize(mnemonics[i])[j])

\* C40: label resolution is two-pass: the symbol table is complete before any
\* instruction is encoded or analysed, so a reference to a label declared
\* later in the source (forward reference) resolves to the same address as a
\* reference placed after the declaration, and the symbol table is not
\* modified by analysis and program loading.
C40_TwoPass ==
    [][/\ asm_phase' = "loaded" => PreprocDone
       /\ PreprocDone =>
             /\ symbol_table' = symbol_table
             /\ \A i \in 1 .. Len(mnemonics) :
                   \A j \in 2 .. Len(mnemonics[i].words) :
                      \A d \in 1 .. Len(declared) :
                         RefersTo(i, j, d) =>
                            /\ Canonical(i)[j] =
                                  Num(base_addr + 4 * declared[d].k)
                            /\ (asm_phase' = "loaded"
                                /\ mnemonics[i].words[1].text = "j") =>
                                  program'[AddrOf(base_addr, i)].imm =
                                     <<base_addr + 4 * declared[d].k>>
                            /\ lines = <<Jump("lab"), Nop, Label("lab"), Nop,
                                         Jump("lab")>>
                                  => asm_phase' = "loaded"]_vars

\* the program with a jump to lab before and after the declaration of lab
\* is loaded, and both jumps hold the address of lab
C40_Witness ==
    /\ asm_phase = "loaded"
    /\ lines = <<Jump("lab"), Nop, Label("lab"), Nop, Jump("lab")>>
    /\ symbol_table["lab"] = base_addr + 8
    /\ program[base_addr].imm = <<base_addr + 8>>
    /\ program[base_addr + 12].imm = <<base_addr + 8>>

====
